---- MODULE Spec2Model ----
(***************************************************************************)
(* A model of the voice orchestrator (src/voice-interface/orchestrator):   *)
(* the wake / listen / think / speak controller of main.py with its        *)
(* threads, the tmux pane monitor of pane_monitor.py with the alert path   *)
(* of main.py and the assignment registry of task_router.py, and the TTS   *)
(* engine of tts.py.                                                       *)
(*                                                                         *)
(* Three specifications share the variables:                               *)
(*   Spec      the orchestrator's threads (wake detector, hotkey watcher,  *)
(*             turn workers, the monitor thread inside _notify);           *)
(*   SpecPane  the pane monitor's poll loop with the orchestrator's        *)
(*             pane-change callback and the task router;                   *)
(*   SpecTTS   the TTS engine under concurrent speak() and stop().         *)
(* Each specification leaves the other groups of variables at their        *)
(* initial values.  Further specifications apply single operations to      *)
(* bounded inputs: SpecDetect (detect_state), SpecClassify                  *)
(* (_classify_complexity), SpecWake (the wake detector's frame loop),      *)
(* SpecBrain (Brain.think and Brain.reset), SpecTurn (a conversation       *)
(* turn), SpecRoute (FastRouter.try_route over the tmux commands it        *)
(* runs), SpecQuiet (stop() with nothing playing, then speak()),           *)
(* SpecMonitor (the monitor thread statement by statement, with its        *)
(* callbacks and unwatch on another thread), and, for                      *)
(* the task-state MCP server (src/mcp-servers/task-state/server.py),       *)
(* SpecStore (the task table) and SpecBeat (instance heartbeats).          *)
(***************************************************************************)
EXTENDS Integers, Sequences, FiniteSets, TLC

VARIABLES
    \* ---- orchestrator (main.py), wake detector flag (wake_word.py)
    active,      \* Orchestrator._active
    paused,      \* WakeWordDetector._paused
    enrolled,    \* SpeakerVerifier.is_enrolled(): fixed at start
    cpc,         \* position of each thread that calls _on_wake
    tpc,         \* position of each conversation-turn worker thread
    attempt,     \* _listen_for_command's loop variable, per worker
    timeouts,    \* history: listen timeouts in a row, per worker (capped at 2)
    utter,       \* user_text returned by _listen_for_command, per worker
    npc,         \* position of the monitor thread inside _notify
    history,     \* Brain.history: the conversation and the user text of each entry
    thought,     \* how the worker's last brain.think ended and what it returned
    steps,       \* history: what was done with the clip a worker captured last
    resumes,     \* history: wake_detector.resume() calls of a worker's turn
    \* ---- TTS engine (tts.py)
    cancel,      \* TTS._cancel
    speaking,    \* TTS._speaking
    process,     \* TTS._process: the player last started by speak(), 0 for None
    player,      \* each ffplay process started by speak(): none, running, exited
    owner,       \* history: the thread whose speak() started each player
    spc,         \* position of each thread inside TTS.speak
    waitOn,      \* the process a speak() is blocked on in _process.wait()
    stpc,        \* position of the thread inside TTS.stop
    marked,      \* history: the speak() calls in progress when stop() was called
    stopped,     \* history: the speak() calls that a returned stop() covers
    \* ---- pane monitor (pane_monitor.py), alerts (main.py), task router
    now,         \* time.time(), in seconds since start
    content,     \* what tmux capture-pane prints for each window
    watched,     \* the keys of PaneMonitor.panes
    panes,       \* PaneMonitor.panes: the PaneInfo of each watched window
    running,     \* PaneMonitor._running
    pollQueue,   \* windows the current pass of _poll has yet to visit
    assignments, \* TaskRouter.assignments: [status, prompt] per window
    alerted,     \* Orchestrator._alerted
    fired,       \* history: per window, the callbacks fired since its polled snapshot
                 \* last changed, whether that snapshot was polled again after one,
                 \* and whether a poll re-classified it as stalled (line 148-149)
    lastPolled,  \* history: the snapshot the last successful capture of a window returned
    baseline,    \* history: "same" while a window's pane is as it was at watch()
    awaiting,    \* history: an assignment waiting for its WORKING->IDLE callback
    alertsIn,    \* history: alerts raised per window, kind and bucket of the time
    lastCb,      \* history: the alert kind of the last poll's callback and what became of it
    \* ---- detect_state applied to a snapshot (pane_monitor.py)
    shot,        \* the output handed to detect_state, as its sequence of lines
    verdicts,    \* the PaneState each call on shot returned, in order
    \* ---- _classify_complexity applied to an utterance (main.py)
    said,        \* the text handed to _classify_complexity, as its sequence of words
    mode,        \* what the call returned, "pending" before it
    \* ---- the wake detector's frame loop (wake_word.py)
    wclock,      \* time.time() at the frame being read, in milliseconds
    lastActivation, \* WakeWordDetector._last_activation, in milliseconds
    inSegment,   \* history: the last frame scored at or above the threshold
    quiet,       \* history: time since the last such frame (capped at the cooldown)
    segFires,    \* history: on_wake calls during the current or last segment
    separated,   \* history: every segment so far began a cooldown after the one before
    \* ---- FastRouter.try_route applied to an utterance (fast_router.py)
    heard,       \* the text handed to try_route, as its sequence of words
    routed,      \* what the call returned: its action and its spoken response
    tmuxLog,     \* history: the tmux commands the call ran, with their exit codes
    \* ---- the task-state service (src/mcp-servers/task-state/server.py)
    tasks,       \* the rows of the tasks table, by id
    nextId,      \* the id AUTOINCREMENT gives the next row
    instances,   \* the rows of the instance_states table, by instance_id
    stime,       \* the service's clock, in ticks of half a second
    answer,      \* history: the last tool call, its number and what it gave back
    listing,     \* history: the last list_active_instances, when and what it listed
    beatAt,      \* history: the instant each instance's last_heartbeat was stamped
    \* ---- the monitor thread inside PaneMonitor._poll and _fire (pane_monitor.py)
    mpc,         \* where the monitor thread is: in the poll loop or in a callback
    call,        \* the transition _fire is handing to the callbacks
    cbLog        \* history: the callbacks invoked for that transition, in order

turnHist == <<history, thought, steps, resumes>>

orchVars == <<active, paused, enrolled, cpc, tpc, attempt, timeouts, utter, npc, turnHist>>

ttsVars == <<cancel, speaking, process, player, owner, spc, waitOn, stpc, marked, stopped>>

paneVars == <<now, content, watched, panes, running, pollQueue, assignments, alerted,
              fired, lastPolled, baseline, awaiting, alertsIn, lastCb>>

detVars == <<shot, verdicts>>

cxVars == <<said, mode>>

wakeVars == <<wclock, lastActivation, inSegment, quiet, segFires, separated>>

routeVars == <<heard, routed, tmuxLog>>

storeVars == <<tasks, nextId, instances, stime, answer, listing, beatAt>>

monVars == <<mpc, call, cbLog>>

svcVars == <<routeVars, storeVars, monVars>>

fnVars == <<detVars, cxVars, wakeVars, svcVars>>

vars == <<orchVars, ttsVars, paneVars, fnVars>>

(***************************************************************************)
(* Bounds                                                                  *)
(***************************************************************************)
\* Thread slots for conversation-turn workers (a finished worker frees its slot).
MaxWorkers == 2

\* Entries the brain adds to its history in the orchestrator's specifications.
MaxTurnHistory == 1

Workers == 1..MaxWorkers

\* Player processes tts.speak may start in one run of the TTS specification.
MaxPlayers == 3

Players == 1..MaxPlayers

\* The threads that call TTS.speak: a conversation-turn worker
\* (_conversation_turn) and the monitor thread (_notify), or speak_async's.
Speakers == {"turn", "mon"}

\* The threads that call Orchestrator._on_wake: the wake detector's listen
\* loop and the signal-file (hotkey) watcher.
Callers == {"wd", "hk"}

\* What _transcribe returns: nothing usable, a fast-router command, a request
\* for the brain, or an end phrase.
Texts == {"noise", "cmd", "ask", "end"}

\* The tmux windows of the session (pane identities).
Windows == {1}

\* The clock runs from 0 to MaxTime seconds in steps of TickStep.
MaxTime == 45

TickStep == 15

\* PaneMonitor(poll_interval=3.0), main.py line 71
PollInterval == 3

\* main.py line 138: time.time() // 30; line 151: time.time() // 60
DedupDone == 30

DedupError == 60

\* pane_monitor.py line 83: lines[-5:]; line 91: lines[-15:]
TailLines == 5

RecentLines == 15

\* wake_word.py line 37: THRESHOLD = 0.35, in hundredths; line 38: COOLDOWN =
\* 2.0 seconds, in milliseconds; line 40: a chunk of 1280 samples is 80 ms.
Threshold == 35

CooldownMs == 2000

FrameMs == 80

\* The lines a pane shows: a blank line, a shell prompt, a line that begins
\* with an error marker, ordinary output, output that mentions an error,
\* output with "Exception:" after other text.
Lines == {"", "$", "Error: boom", "compiling", "handled error gracefully",
          "KeyException: k"}

\* The pane contents the environment produces (capture-pane's output as its
\* sequence of lines; <<>> is the empty string).
Snapshots ==
    { <<>>,
      <<"compiling">>,
      <<"compiling", "$">>,
      <<"Error: boom", "compiling">>,
      <<"compiling", "handled error gracefully", "">> }

\* The prompts a user assigns.
Prompts == {"fix the tests"}

AlertKinds == {"done", "error"}

Buckets == 0..(MaxTime \div DedupDone)

Min(a, b) == IF a < b THEN a ELSE b

Max(a, b) == IF a > b THEN a ELSE b

(***************************************************************************)
(* Orchestrator: _on_wake, called on the wake detector's thread and on the *)
(* hotkey watcher's thread.  The test of _active and the assignment to it  *)
(* are separate steps: nothing in the code makes them atomic.              *)
(***************************************************************************)

\* wake_word.py _listen_loop: not paused, a frame scores >= THRESHOLD after
\* the cooldown: on_wake("") is called.
WdDetect ==
    /\ cpc["wd"] = "loop"
    /\ ~paused
    /\ cpc' = [cpc EXCEPT !["wd"] = "wake_check"]
    /\ UNCHANGED <<active, paused, enrolled, tpc, attempt, timeouts, utter, npc>>
    /\ UNCHANGED <<turnHist, ttsVars, paneVars, fnVars>>

\* main.py _watch_signal_file: the signal file exists; it is removed and
\* _on_wake("") is called.
HkTrigger ==
    /\ cpc["hk"] = "loop"
    /\ cpc' = [cpc EXCEPT !["hk"] = "wake_check"]
    /\ UNCHANGED <<active, paused, enrolled, tpc, attempt, timeouts, utter, npc>>
    /\ UNCHANGED <<turnHist, ttsVars, paneVars, fnVars>>

\* _on_wake line 128-131: if self._active: play_cached("busy"); return
OnWakeCheck(c) ==
    /\ cpc[c] = "wake_check"
    /\ \/ /\ active
          /\ cpc' = [cpc EXCEPT ![c] = "wake_busy"]
       \/ /\ ~active
          /\ cpc' = [cpc EXCEPT ![c] = "wake_set"]
    /\ UNCHANGED <<active, paused, enrolled, tpc, attempt, timeouts, utter, npc>>
    /\ UNCHANGED <<turnHist, ttsVars, paneVars, fnVars>>

\* play_cached("busy") is non-blocking (a detached player); _on_wake returns.
OnWakeBusy(c) ==
    /\ cpc[c] = "wake_busy"
    /\ cpc' = [cpc EXCEPT ![c] = "loop"]
    /\ UNCHANGED <<active, paused, enrolled, tpc, attempt, timeouts, utter, npc>>
    /\ UNCHANGED <<turnHist, ttsVars, paneVars, fnVars>>

\* _on_wake line 132-133: self._active = True; Thread(_conversation_turn).start()
OnWakeSpawn(c) ==
    /\ cpc[c] = "wake_set"
    /\ \E w \in Workers :
          /\ tpc[w] = "none"
          /\ tpc' = [tpc EXCEPT ![w] = "start"]
          /\ resumes' = [resumes EXCEPT ![w] = 0]
    /\ active' = TRUE
    /\ cpc' = [cpc EXCEPT ![c] = "loop"]
    /\ UNCHANGED <<paused, enrolled, attempt, timeouts, utter, npc>>
    /\ UNCHANGED <<history, thought, steps, ttsVars, paneVars, fnVars>>

(***************************************************************************)
(* Orchestrator: _conversation_turn and _listen_for_command, on a worker.  *)
(***************************************************************************)

\* How a call of brain.think ends: an answer (local or from Codex), a Codex
\* response that is empty once cleaned up, the subprocess timeout, any other
\* exception.
ThinkOutcomes == {"answer", "empty", "timeout", "error"}

TooLong == "That took too long. Could you try a simpler request?"

Trouble == "I had trouble processing that."

NoThought == [outcome |-> "none", response |-> ""]

\* _conversation_turn line 201: self.wake_detector.pause(), then the loop
\* calls _listen_for_command (attempt 0).
TurnPause(w) ==
    /\ tpc[w] = "start"
    /\ paused' = TRUE
    /\ tpc' = [tpc EXCEPT ![w] = "listen"]
    /\ UNCHANGED <<active, enrolled, cpc, attempt, timeouts, utter, npc>>
    /\ UNCHANGED <<turnHist, ttsVars, paneVars, fnVars>>

\* _listen_for_command line 250-254: recognizer.listen raised WaitTimeoutError.
\* On attempt 0 the loop continues; on attempt 1 it returns "".
ListenTimeout(w) ==
    /\ tpc[w] = "listen"
    /\ timeouts' = [timeouts EXCEPT ![w] = Min(timeouts[w] + 1, 2)]
    /\ \/ /\ attempt[w] = 0
          /\ attempt' = [attempt EXCEPT ![w] = 1]
          /\ UNCHANGED <<tpc, utter>>
       \/ /\ attempt[w] = 1
          /\ tpc' = [tpc EXCEPT ![w] = "loop"]
          /\ utter' = [utter EXCEPT ![w] = "none"]
          /\ UNCHANGED attempt
    /\ UNCHANGED <<active, paused, enrolled, cpc, npc>>
    /\ steps' = [steps EXCEPT ![w] = <<>>]
    /\ thought' = [thought EXCEPT ![w] = NoThought]
    /\ UNCHANGED <<history, resumes, ttsVars, paneVars, fnVars>>

\* _listen_for_command line 246-249: an utterance was captured; line 257:
\* the speaker check runs only with a profile enrolled.
ListenAudio(w) ==
    /\ tpc[w] = "listen"
    /\ timeouts' = [timeouts EXCEPT ![w] = 0]
    /\ tpc' = [tpc EXCEPT ![w] = IF enrolled THEN "verify" ELSE "transcribe"]
    /\ UNCHANGED <<active, paused, enrolled, cpc, attempt, utter, npc>>
    /\ steps' = [steps EXCEPT ![w] = <<>>]
    /\ thought' = [thought EXCEPT ![w] = NoThought]
    /\ UNCHANGED <<history, resumes, ttsVars, paneVars, fnVars>>

\* A speaker check whose rejection is logged and then ignored.
VerifyThenTranscribe(w) ==
    /\ tpc[w] = "verify"
    /\ tpc' = [tpc EXCEPT ![w] = "transcribe"]
    /\ \/ steps' = [steps EXCEPT ![w] = Append(@, "verify")]
       \/ steps' = [steps EXCEPT ![w] = Append(@, "verify") \o <<"reject">>]
    /\ UNCHANGED <<active, paused, enrolled, cpc, attempt, timeouts, utter, npc>>
    /\ UNCHANGED <<history, thought, resumes, ttsVars, paneVars, fnVars>>

\* _listen_for_command line 258-262: a rejected speaker returns "".
Verify(w) ==
    /\ tpc[w] = "verify"
    /\ \/ /\ tpc' = [tpc EXCEPT ![w] = "transcribe"]
          /\ steps' = [steps EXCEPT ![w] = Append(@, "verify")]
          /\ UNCHANGED utter
       \/ /\ tpc' = [tpc EXCEPT ![w] = "loop"]
          /\ steps' = [steps EXCEPT ![w] = Append(@, "verify") \o <<"reject">>]
          /\ utter' = [utter EXCEPT ![w] = "none"]
    /\ UNCHANGED <<active, paused, enrolled, cpc, attempt, timeouts, npc>>
    /\ UNCHANGED <<history, thought, resumes, ttsVars, paneVars, fnVars>>

\* _listen_for_command line 265-271: text of two characters or more is
\* returned; otherwise attempt 0 goes on to attempt 1 and attempt 1 returns "".
Transcribe(w) ==
    /\ tpc[w] = "transcribe"
    /\ \E text \in Texts :
          \/ /\ text # "noise"
             /\ tpc' = [tpc EXCEPT ![w] = "loop"]
             /\ utter' = [utter EXCEPT ![w] = text]
             /\ UNCHANGED attempt
          \/ /\ text = "noise"
             /\ attempt[w] = 0
             /\ attempt' = [attempt EXCEPT ![w] = 1]
             /\ tpc' = [tpc EXCEPT ![w] = "listen"]
             /\ UNCHANGED utter
          \/ /\ text = "noise"
             /\ attempt[w] = 1
             /\ tpc' = [tpc EXCEPT ![w] = "loop"]
             /\ utter' = [utter EXCEPT ![w] = "none"]
             /\ UNCHANGED attempt
    /\ UNCHANGED <<active, paused, enrolled, cpc, timeouts, npc>>
    /\ steps' = [steps EXCEPT ![w] = Append(@, "transcribe")]
    /\ UNCHANGED <<history, thought, resumes, ttsVars, paneVars, fnVars>>

\* _conversation_turn line 204-216, after _listen_for_command returned:
\* an empty result continues the loop, an end phrase speaks the farewell,
\* anything else goes to the fast router.
TurnLoop(w) ==
    /\ tpc[w] = "loop"
    /\ \/ /\ utter[w] = "none"
          /\ tpc' = [tpc EXCEPT ![w] = "listen"]
          /\ attempt' = [attempt EXCEPT ![w] = 0]
          /\ UNCHANGED utter
       \/ /\ utter[w] = "end"
          /\ tpc' = [tpc EXCEPT ![w] = "speak_bye"]
          /\ utter' = [utter EXCEPT ![w] = "none"]
          /\ UNCHANGED attempt
       \/ /\ utter[w] \in {"cmd", "ask"}
          /\ tpc' = [tpc EXCEPT ![w] = "route"]
          /\ UNCHANGED <<utter, attempt>>
    /\ UNCHANGED <<active, paused, enrolled, cpc, timeouts, npc>>
    /\ steps' = [steps EXCEPT ![w] = IF utter[w] = "end" THEN Append(@, "speak") ELSE @]
    /\ UNCHANGED <<history, thought, resumes, ttsVars, paneVars, fnVars>>

\* A turn that asks the brain about every utterance, routed or not.
RouteThenBrain(w) ==
    /\ tpc[w] = "route"
    /\ utter[w] \in {"cmd", "ask"}
    /\ tpc' = [tpc EXCEPT ![w] = "think"]
    /\ utter' = [utter EXCEPT ![w] = "none"]
    /\ UNCHANGED <<active, paused, enrolled, cpc, attempt, timeouts, npc>>
    /\ steps' = [steps EXCEPT ![w] = Append(@, "route")]
    /\ UNCHANGED <<history, thought, resumes, ttsVars, paneVars, fnVars>>

\* _conversation_turn line 216-224: fast_router.try_route; a match is spoken,
\* no match goes to brain.think.
Route(w) ==
    /\ tpc[w] = "route"
    /\ \/ /\ utter[w] = "cmd"
          /\ tpc' = [tpc EXCEPT ![w] = "speak_reply"]
       \/ /\ utter[w] = "ask"
          /\ tpc' = [tpc EXCEPT ![w] = "think"]
    /\ utter' = [utter EXCEPT ![w] = "none"]
    /\ UNCHANGED <<active, paused, enrolled, cpc, attempt, timeouts, npc>>
    /\ steps' = [steps EXCEPT ![w] =
                    IF utter[w] = "cmd" THEN @ \o <<"route", "speak">> ELSE Append(@, "route")]
    /\ UNCHANGED <<history, thought, resumes, ttsVars, paneVars, fnVars>>

\* A think() that returns nothing when the subprocess times out.
ReplySilentOnTimeout(outcome) ==
    CASE outcome = "answer" -> "answer"
      [] outcome = "empty" -> ""
      [] outcome = "timeout" -> ""
      [] outcome = "error" -> Trouble

\* brain.py line 101, 112, 213 and 215-219: what think() returns.
Reply(outcome) ==
    CASE outcome = "answer" -> "answer"
      [] outcome = "empty" -> ""
      [] outcome = "timeout" -> TooLong
      [] outcome = "error" -> Trouble

\* brain.py line 101, 112, 211: think() appends the exchange to the history
\* when it has a response; the except branches return without appending.
Remember(hist, conv, text, outcome) ==
    IF outcome \in {"answer", "empty"}
    THEN Append(hist, [conv |-> conv, user |-> text])
    ELSE hist

\* _conversation_turn line 224-227: brain.think returned; only a non-empty
\* response is spoken, then the loop listens again.  The brain answers while
\* the history has fewer than MaxTurnHistory entries.
Think(w) ==
    /\ tpc[w] = "think"
    /\ \E outcome \in ThinkOutcomes :
          /\ outcome \in {"answer", "empty"} => Len(history) < MaxTurnHistory
          /\ history' = Remember(history, w, "ask", outcome)
          /\ thought' = [thought EXCEPT ![w] =
                            [outcome |-> outcome, response |-> Reply(outcome)]]
          /\ IF Reply(outcome) # ""
             THEN /\ tpc' = [tpc EXCEPT ![w] = "speak_reply"]
                  /\ steps' = [steps EXCEPT ![w] = Append(@, "speak")]
             ELSE /\ tpc' = [tpc EXCEPT ![w] = "listen"]
                  /\ UNCHANGED steps
    /\ attempt' = [attempt EXCEPT ![w] = 0]
    /\ UNCHANGED <<active, paused, enrolled, cpc, timeouts, utter, npc>>
    /\ UNCHANGED <<resumes, ttsVars, paneVars, fnVars>>

\* A worker that resumes the detector after each thing it says, as _notify does.
SpeakDoneResuming(w) ==
    /\ \/ /\ tpc[w] = "speak_reply"
          /\ tpc' = [tpc EXCEPT ![w] = "listen"]
       \/ /\ tpc[w] = "speak_bye"
          /\ tpc' = [tpc EXCEPT ![w] = "fin_active"]
    /\ attempt' = [attempt EXCEPT ![w] = 0]
    /\ paused' = FALSE
    /\ resumes' = [resumes EXCEPT ![w] = Min(@ + 1, 2)]
    /\ thought' = [thought EXCEPT ![w] = NoThought]
    /\ UNCHANGED <<active, enrolled, cpc, timeouts, utter, npc>>
    /\ UNCHANGED <<history, steps, ttsVars, paneVars, fnVars>>

\* tts.speak returned (line 212, 220, 227): after the farewell the loop
\* breaks, after a reply it listens again.
SpeakDone(w) ==
    /\ \/ /\ tpc[w] = "speak_reply"
          /\ tpc' = [tpc EXCEPT ![w] = "listen"]
       \/ /\ tpc[w] = "speak_bye"
          /\ tpc' = [tpc EXCEPT ![w] = "fin_active"]
    /\ attempt' = [attempt EXCEPT ![w] = 0]
    /\ UNCHANGED <<active, paused, enrolled, cpc, timeouts, utter, npc>>
    /\ thought' = [thought EXCEPT ![w] = NoThought]
    /\ UNCHANGED <<history, steps, resumes, ttsVars, paneVars, fnVars>>

\* A turn that goes back to listening after an exception.
TurnExceptListensOn(w) ==
    /\ tpc[w] = "except"
    /\ tpc' = [tpc EXCEPT ![w] = "listen"]
    /\ UNCHANGED <<active, paused, enrolled, cpc, attempt, timeouts, utter, npc>>
    /\ UNCHANGED <<turnHist, ttsVars, paneVars, fnVars>>

\* An exception other than WaitTimeoutError escapes the microphone, the
\* speaker check, the transcriber, the router, or brain.think before its
\* own try block (brain.py line 93-172): line 229-231.
TurnRaise(w) ==
    /\ tpc[w] \in {"listen", "verify", "transcribe", "route", "think"}
    /\ tpc' = [tpc EXCEPT ![w] = "except"]
    /\ utter' = [utter EXCEPT ![w] = "none"]
    /\ attempt' = [attempt EXCEPT ![w] = 0]
    /\ timeouts' = [timeouts EXCEPT ![w] = 0]
    /\ UNCHANGED <<active, paused, enrolled, cpc, npc>>
    /\ steps' = [steps EXCEPT ![w] = <<>>]
    /\ thought' = [thought EXCEPT ![w] = NoThought]
    /\ UNCHANGED <<history, resumes, ttsVars, paneVars, fnVars>>

\* line 231: self.tts.play_cached("error")
TurnExcept(w) ==
    /\ tpc[w] = "except"
    /\ tpc' = [tpc EXCEPT ![w] = "fin_active"]
    /\ UNCHANGED <<active, paused, enrolled, cpc, attempt, timeouts, utter, npc>>
    /\ UNCHANGED <<turnHist, ttsVars, paneVars, fnVars>>

\* finally, line 233: self._active = False
FinActive(w) ==
    /\ tpc[w] = "fin_active"
    /\ active' = FALSE
    /\ tpc' = [tpc EXCEPT ![w] = "fin_reset"]
    /\ timeouts' = [timeouts EXCEPT ![w] = 0]
    /\ UNCHANGED <<paused, enrolled, cpc, attempt, utter, npc>>
    /\ steps' = [steps EXCEPT ![w] = <<>>]
    /\ UNCHANGED <<history, thought, resumes, ttsVars, paneVars, fnVars>>

\* finally, line 234: self.brain.reset()
FinReset(w) ==
    /\ tpc[w] = "fin_reset"
    /\ tpc' = [tpc EXCEPT ![w] = "fin_resume"]
    /\ UNCHANGED <<active, paused, enrolled, cpc, attempt, timeouts, utter, npc>>
    /\ history' = <<>>
    /\ UNCHANGED <<thought, steps, resumes, ttsVars, paneVars, fnVars>>

\* finally, line 235: self.wake_detector.resume(); the worker thread ends.
FinResume(w) ==
    /\ tpc[w] = "fin_resume"
    /\ paused' = FALSE
    /\ tpc' = [tpc EXCEPT ![w] = "none"]
    /\ UNCHANGED <<active, enrolled, cpc, attempt, timeouts, utter, npc>>
    /\ resumes' = [resumes EXCEPT ![w] = Min(@ + 1, 2)]
    /\ UNCHANGED <<history, thought, steps, ttsVars, paneVars, fnVars>>

(***************************************************************************)
(* Orchestrator: _notify, called by _on_pane_change on the monitor thread. *)
(***************************************************************************)

\* _on_pane_change raised an alert and called _notify; line 168 reads _active.
NotifyCall ==
    /\ npc = "idle"
    /\ \/ /\ active
          /\ UNCHANGED npc
       \/ /\ ~active
          /\ npc' = "n_pause"
    /\ UNCHANGED <<active, paused, enrolled, cpc, tpc, attempt, timeouts, utter>>
    /\ UNCHANGED <<turnHist, ttsVars, paneVars, fnVars>>

\* line 169: self.wake_detector.pause(); line 170 enters tts.speak(text)
NotifyPause ==
    /\ npc = "n_pause"
    /\ paused' = TRUE
    /\ npc' = "n_speaking"
    /\ UNCHANGED <<active, enrolled, cpc, tpc, attempt, timeouts, utter>>
    /\ UNCHANGED <<turnHist, ttsVars, paneVars, fnVars>>

\* line 170: tts.speak(text) returned
NotifySpeakDone ==
    /\ npc = "n_speaking"
    /\ npc' = "n_resume"
    /\ UNCHANGED <<active, paused, enrolled, cpc, tpc, attempt, timeouts, utter>>
    /\ UNCHANGED <<turnHist, ttsVars, paneVars, fnVars>>

\* line 171: self.wake_detector.resume()
NotifyResume ==
    /\ npc = "n_resume"
    /\ paused' = FALSE
    /\ npc' = "idle"
    /\ UNCHANGED <<active, enrolled, cpc, tpc, attempt, timeouts, utter>>
    /\ UNCHANGED <<turnHist, ttsVars, paneVars, fnVars>>


(***************************************************************************)
(* TTS engine (tts.py).  speak() runs on the calling thread; stop() may be *)
(* called from any other thread.  The two `with self._lock` blocks exclude *)
(* each other, so each is one step; everything else is unlocked.           *)
(***************************************************************************)
TTSInit ==
    /\ cancel = FALSE
    /\ speaking = FALSE
    /\ process = 0
    /\ player = [p \in Players |-> "none"]
    /\ owner = [p \in Players |-> "nobody"]
    /\ spc = [s \in Speakers |-> "idle"]
    /\ waitOn = [s \in Speakers |-> 0]
    /\ stpc = "idle"
    /\ marked = {}
    /\ stopped = {}

\* A speak() that leaves _cancel as it finds it.
SpeakBeginKeepingCancel(s) ==
    /\ spc[s] = "idle"
    /\ spc' = [spc EXCEPT ![s] = "s_flag"]
    /\ UNCHANGED <<cancel, speaking, process, player, owner, waitOn, stpc, marked, stopped>>
    /\ UNCHANGED <<orchVars, paneVars, fnVars>>

\* speak line 63-65: non-blank text; self._cancel = False
SpeakBegin(s) ==
    /\ spc[s] = "idle"
    /\ cancel' = FALSE
    /\ spc' = [spc EXCEPT ![s] = "s_flag"]
    /\ UNCHANGED <<speaking, process, player, owner, waitOn, stpc, marked, stopped>>
    /\ UNCHANGED <<orchVars, paneVars, fnVars>>

\* speak line 66: self._speaking = True; asyncio.run(_stream_speak) starts
SpeakFlag(s) ==
    /\ spc[s] = "s_flag"
    /\ speaking' = TRUE
    /\ spc' = [spc EXCEPT ![s] = "s_stream"]
    /\ UNCHANGED <<cancel, process, player, owner, waitOn, stpc, marked, stopped>>
    /\ UNCHANGED <<orchVars, paneVars, fnVars>>

\* _stream_speak line 88-93: the chunks are collected until the stream ends
\* or _cancel is seen; either way the loop is left and line 95 follows.  A
\* failure of the synthesis stream raises, which speak() catches (line 69).
SpeakStream(s) ==
    /\ spc[s] = "s_stream"
    /\ \/ spc' = [spc EXCEPT ![s] = "s_check"]
       \/ spc' = [spc EXCEPT ![s] = "s_done"]
    /\ UNCHANGED <<cancel, speaking, process, player, owner, waitOn, stpc, marked, stopped>>
    /\ UNCHANGED <<orchVars, paneVars, fnVars>>

\* _stream_speak line 95-96: if self._cancel: return
SpeakCheck(s) ==
    /\ spc[s] = "s_check"
    /\ \/ /\ cancel
          /\ spc' = [spc EXCEPT ![s] = "s_done"]
       \/ /\ ~cancel
          /\ spc' = [spc EXCEPT ![s] = "s_launch"]
    /\ UNCHANGED <<cancel, speaking, process, player, owner, waitOn, stpc, marked, stopped>>
    /\ UNCHANGED <<orchVars, paneVars, fnVars>>

\* _stream_speak line 99-104: with self._lock: self._process = Popen(ffplay)
SpeakLaunch(s) ==
    /\ spc[s] = "s_launch"
    /\ \E p \in Players :
          /\ player[p] = "none"
          /\ \A q \in Players : q < p => player[q] # "none"
          /\ player' = [player EXCEPT ![p] = "running"]
          /\ owner' = [owner EXCEPT ![p] = s]
          /\ process' = p
    /\ spc' = [spc EXCEPT ![s] = "s_wait"]
    /\ UNCHANGED <<cancel, speaking, waitOn, stpc, marked, stopped>>
    /\ UNCHANGED <<orchVars, paneVars, fnVars>>

\* _stream_speak line 105: self._process.wait() reads the attribute again,
\* outside the lock, and blocks on whatever process it names by then.
SpeakWait(s) ==
    /\ spc[s] = "s_wait"
    /\ waitOn' = [waitOn EXCEPT ![s] = process]
    /\ spc' = [spc EXCEPT ![s] = "s_blocked"]
    /\ UNCHANGED <<cancel, speaking, process, player, owner, stpc, marked, stopped>>
    /\ UNCHANGED <<orchVars, paneVars, fnVars>>

\* wait() returns once that process has exited.
SpeakWaitDone(s) ==
    /\ spc[s] = "s_blocked"
    /\ player[waitOn[s]] = "exited"
    /\ waitOn' = [waitOn EXCEPT ![s] = 0]
    /\ spc' = [spc EXCEPT ![s] = "s_done"]
    /\ UNCHANGED <<cancel, speaking, process, player, owner, stpc, marked, stopped>>
    /\ UNCHANGED <<orchVars, paneVars, fnVars>>

\* speak line 71-72: finally: self._speaking = False; speak() returns.
SpeakReturn(s) ==
    /\ spc[s] = "s_done"
    /\ speaking' = FALSE
    /\ spc' = [spc EXCEPT ![s] = "idle"]
    /\ marked' = marked \ {s}
    /\ stopped' = stopped \ {s}
    /\ UNCHANGED <<cancel, process, player, owner, waitOn, stpc>>
    /\ UNCHANGED <<orchVars, paneVars, fnVars>>

\* ffplay -autoexit: the player reaches the end of the file and exits.
PlayerExit(p) ==
    /\ player[p] = "running"
    /\ player' = [player EXCEPT ![p] = "exited"]
    /\ UNCHANGED <<cancel, speaking, process, owner, spc, waitOn, stpc, marked, stopped>>
    /\ UNCHANGED <<orchVars, paneVars, fnVars>>

\* stop line 51: self._cancel = True
StopBegin ==
    /\ stpc = "idle"
    /\ cancel' = TRUE
    /\ stpc' = "t_lock"
    /\ marked' = {s \in Speakers : spc[s] # "idle"}
    /\ UNCHANGED <<speaking, process, player, owner, spc, waitOn, stopped>>
    /\ UNCHANGED <<orchVars, paneVars, fnVars>>

\* stop line 52-58: with self._lock: a live self._process is terminated
\* (SIGTERM, then SIGKILL after one second).
StopKill ==
    /\ stpc = "t_lock"
    /\ \/ /\ process # 0
          /\ player[process] = "running"
          /\ player' = [player EXCEPT ![process] = "exited"]
       \/ /\ ~(process # 0 /\ player[process] = "running")
          /\ UNCHANGED player
    /\ stpc' = "t_flag"
    /\ UNCHANGED <<cancel, speaking, process, owner, spc, waitOn, marked, stopped>>
    /\ UNCHANGED <<orchVars, paneVars, fnVars>>

\* stop line 59: self._speaking = False; stop() returns.
StopReturn ==
    /\ stpc = "t_flag"
    /\ speaking' = FALSE
    /\ stpc' = "idle"
    /\ stopped' = stopped \cup marked
    /\ marked' = {}
    /\ UNCHANGED <<cancel, process, player, owner, spc, waitOn>>
    /\ UNCHANGED <<orchVars, paneVars, fnVars>>

TTSNext ==
    \/ \E s \in Speakers : SpeakBegin(s)
    \/ \E s \in Speakers : SpeakFlag(s)
    \/ \E s \in Speakers : SpeakStream(s)
    \/ \E s \in Speakers : SpeakCheck(s)
    \/ \E s \in Speakers : SpeakLaunch(s)
    \/ \E s \in Speakers : SpeakWait(s)
    \/ \E s \in Speakers : SpeakWaitDone(s)
    \/ \E s \in Speakers : SpeakReturn(s)
    \/ \E p \in Players : PlayerExit(p)
    \/ StopBegin
    \/ StopKill
    \/ StopReturn


(***************************************************************************)
(* Pane monitor: the classifier and the digest (pane_monitor.py)           *)
(***************************************************************************)

\* seq[-n:]
LastN(seq, n) == SubSeq(seq, Max(1, Len(seq) - n + 1), Len(seq))

\* l.strip() is empty
IsBlank(l) == l = ""

\* output.strip().splitlines(): leading and trailing blank lines go.
RECURSIVE StripLines(_)
StripLines(out) ==
    IF out = <<>> THEN <<>>
    ELSE IF IsBlank(Head(out)) THEN StripLines(Tail(out))
    ELSE IF IsBlank(out[Len(out)]) THEN StripLines(SubSeq(out, 1, Len(out) - 1))
    ELSE out

\* Some IDLE_RE pattern matches the stripped line (line 34-42, 86-88).
MatchesIdle(l) == l \in {"$"}

\* Some ERROR_RE pattern matches at the start of the line (line 46-53).
BeginsWithErrorMarker(l) == l \in {"Error: boom"}

\* The pattern (?i)^.*Exception: (line 49) matches a line that has
\* "Exception:" anywhere in it.
HasExceptionMarker(l) == l \in {"KeyException: k"}

\* An error search that looks at every line of the recent output.
ErrorSearchAnyLine(recent) ==
    \E i \in DOMAIN recent : BeginsWithErrorMarker(recent[i]) \/ HasExceptionMarker(recent[i])

\* pat.search(recent) for the ERROR_RE patterns, line 91-94: they are compiled
\* without re.MULTILINE, so ^ matches at the start of the joined text only.
ErrorSearch(recent) ==
    recent # <<>> /\ (BeginsWithErrorMarker(Head(recent)) \/ HasExceptionMarker(Head(recent)))

\* A detect_state that looks for errors before it looks for the prompt.
DetectStateErrorFirst(out) ==
    IF out = <<>> THEN "unknown"
    ELSE LET lines == StripLines(out)
             tail == SelectSeq(LastN(lines, TailLines), LAMBDA l : ~IsBlank(l))
         IN  IF lines = <<>> THEN "unknown"
             ELSE IF ErrorSearch(LastN(lines, RecentLines)) THEN "errored"
             ELSE IF tail # <<>> /\ MatchesIdle(tail[Len(tail)]) THEN "idle"
             ELSE "working"

\* detect_state, line 73-96
DetectState(out) ==
    IF out = <<>> THEN "unknown"
    ELSE LET lines == StripLines(out)
             tail == SelectSeq(LastN(lines, TailLines), LAMBDA l : ~IsBlank(l))
         IN  IF lines = <<>> THEN "unknown"
             ELSE IF tail # <<>> /\ MatchesIdle(tail[Len(tail)]) THEN "idle"
             ELSE IF ErrorSearch(LastN(lines, RecentLines)) THEN "errored"
             ELSE "working"

\* hash(output), line 114 and 143: Python's hash of a str, 0 for the empty
\* string; the digests of the distinct snapshots in play are distinct.
HashBase == 7

HashMod == 2147483647

LineCode(l) ==
    CASE l = "" -> 1
      [] l = "$" -> 2
      [] l = "Error: boom" -> 3
      [] l = "compiling" -> 4
      [] OTHER -> 5

RECURSIVE HashFrom(_, _)
HashFrom(out, h) ==
    IF out = <<>> THEN h
    ELSE HashFrom(Tail(out), (h * HashBase + LineCode(Head(out))) % HashMod)

Hash(out) == HashFrom(out, 0)

\* PaneInfo(window=window), line 24-30
NewPaneInfo(t) == [state |-> "unknown", hash |-> 0, out |-> <<>>, change |-> t]

\* watch, line 110-116: the baseline snapshot, when the capture returned text
WatchInfo(captured, output, t) ==
    IF captured /\ output # <<>>
    THEN [state |-> DetectState(output), hash |-> Hash(output), out |-> output,
          change |-> t]
    ELSE NewPaneInfo(t)

\* A state change that stamps the time and leaves the state as it was.
ChangedStateKept(info, newState, t) == [info EXCEPT !.change = t]

\* _poll line 151-153 and 162-164: the record after a state change
Changed(info, newState, t) == [info EXCEPT !.state = newState, !.change = t]

\* A poll that stores a changed digest of a working pane without
\* classifying the snapshot, leaving that to the stalled re-check.
PollPaneClassifyLater(info, output, t) ==
    IF Hash(output) = info.hash
    THEN IF /\ info.state = "working"
            /\ t - info.change > PollInterval * 2
            /\ DetectState(output) # info.state
         THEN [info |-> Changed(info, DetectState(output), t),
               fire |-> <<info.state, DetectState(output)>>]
         ELSE [info |-> info, fire |-> <<>>]
    ELSE LET seen == [info EXCEPT !.hash = Hash(output), !.out = output]
         IN  IF DetectState(output) # info.state /\ info.state # "working"
             THEN [info |-> Changed(seen, DetectState(output), t),
                   fire |-> <<info.state, DetectState(output)>>]
             ELSE [info |-> seen, fire |-> <<>>]

\* _poll line 139-165 for one window whose capture returned `output`: the
\* updated PaneInfo and the (old, new) pair handed to _fire, or <<>>.
PollPane(info, output, t) ==
    IF Hash(output) = info.hash
    THEN IF /\ info.state = "working"
            /\ t - info.change > PollInterval * 2
            /\ DetectState(output) # info.state
         THEN [info |-> Changed(info, DetectState(output), t),
               fire |-> <<info.state, DetectState(output)>>]
         ELSE [info |-> info, fire |-> <<>>]
    ELSE LET seen == [info EXCEPT !.hash = Hash(output), !.out = output]
         IN  IF DetectState(output) # info.state
             THEN [info |-> Changed(seen, DetectState(output), t),
                   fire |-> <<info.state, DetectState(output)>>]
             ELSE [info |-> seen, fire |-> <<>>]

(***************************************************************************)
(* Task router (task_router.py)                                            *)
(***************************************************************************)
NoAssignment == [status |-> "none", prompt |-> ""]

\* mark_completed line 79-82, mark_errored line 84-87
MarkStatus(asg, w, status) ==
    IF asg[w].status # "none" THEN [asg EXCEPT ![w].status = status] ELSE asg

(***************************************************************************)
(* Orchestrator: _on_pane_change (main.py line 135-157)                    *)
(***************************************************************************)

\* A dedup key that keeps the time itself instead of its 30-second bucket.
DoneKeyPerSecond(w, t) == <<w, "done", t>>

\* The dedup keys, line 138 and 151
DoneKey(w, t) == <<w, "done", t \div DedupDone>>

ErrorKey(w, t) == <<w, "error", t \div DedupError>>

\* _on_pane_change up to its call of _notify: the kind of alert raised
\* ("none" when the transition is not alerted or its key was seen), the new
\* _alerted and the new assignment registry.
OnPaneChange(w, old, new, t, keys, asg) ==
    IF old = "working" /\ new = "idle"
    THEN IF DoneKey(w, t) \notin keys
         THEN [alert |-> "done", keys |-> keys \cup {DoneKey(w, t)},
               asg |-> MarkStatus(asg, w, "completed")]
         ELSE [alert |-> "none", keys |-> keys, asg |-> asg]
    ELSE IF old = "working" /\ new = "errored"
    THEN IF ErrorKey(w, t) \notin keys
         THEN [alert |-> "error", keys |-> keys \cup {ErrorKey(w, t)},
               asg |-> MarkStatus(asg, w, "errored")]
         ELSE [alert |-> "none", keys |-> keys, asg |-> asg]
    ELSE [alert |-> "none", keys |-> keys, asg |-> asg]

\* The kind of alert a transition asks for, whatever the dedup decides.
AlertKindOf(old, new) ==
    IF old = "working" /\ new = "idle" THEN "done"
    ELSE IF old = "working" /\ new = "errored" THEN "error"
    ELSE "none"

\* The bucket of time an alert of a kind raised at time t falls in.
TrueBucket(kind, t) == IF kind = "done" THEN t \div DedupDone ELSE t \div DedupError

(***************************************************************************)
(* Pane monitor and alerts: the actions.  A poll of one window runs on the *)
(* monitor thread from the capture to the return of the callback, _notify  *)
(* and its tts.speak included (the thread is blocked for the speech), and  *)
(* is one step here; lastCb records whether the alert was spoken.  The     *)
(* interleaving of _notify with the other threads is in Spec, that of      *)
(* tts.speak in SpecTTS.                                                   *)
(***************************************************************************)
NoneFired == [cbs |-> <<>>, again |-> FALSE, stalled |-> FALSE]

NoCallback == [kind |-> "none", outcome |-> "none"]

PaneInit ==
    /\ now = 0
    /\ content \in [Windows -> Snapshots]
    /\ watched = {}
    /\ panes = [w \in Windows |-> NewPaneInfo(0)]
    /\ running = FALSE
    /\ pollQueue = <<>>
    /\ assignments = [w \in Windows |-> NoAssignment]
    /\ alerted = {}
    /\ fired = [w \in Windows |-> NoneFired]
    /\ lastPolled = [w \in Windows |-> <<"?">>]
    /\ baseline = [w \in Windows |-> "unwatched"]
    /\ awaiting = [w \in Windows |-> "none"]
    /\ alertsIn = [w \in Windows |-> [k \in AlertKinds |-> [b \in Buckets |-> 0]]]
    /\ lastCb = NoCallback

\* The pane group at rest, for the specifications that do not move it.
PaneIdle == PaneInit /\ content = [w \in Windows |-> <<>>]

\* time passes
Tick ==
    /\ now + TickStep <= MaxTime
    /\ now' = now + TickStep
    /\ UNCHANGED <<content, watched, panes, running, pollQueue, assignments, alerted,
                   fired, lastPolled, baseline, awaiting, alertsIn, lastCb>>
    /\ UNCHANGED <<orchVars, ttsVars, fnVars>>

\* the program in a window prints: the pane shows something else
PaneOutput(w, snap) ==
    /\ content[w] # snap
    /\ content' = [content EXCEPT ![w] = snap]
    /\ baseline' = [baseline EXCEPT ![w] = IF @ = "same" THEN "moved" ELSE @]
    /\ UNCHANGED <<now, watched, panes, running, pollQueue, assignments, alerted,
                   fired, lastPolled, awaiting, alertsIn, lastCb>>
    /\ UNCHANGED <<orchVars, ttsVars, fnVars>>

\* watch(window), line 107-117, called by run() for each window in tmux's
\* order before the monitor is started (main.py line 304-312)
Watch(w, captured) ==
    /\ ~running
    /\ \A v \in watched : v < w
    /\ watched' = watched \cup {w}
    /\ panes' = [panes EXCEPT ![w] = WatchInfo(captured, content[w], now)]
    /\ lastPolled' = [lastPolled EXCEPT ![w] = IF captured THEN content[w] ELSE @]
    /\ baseline' = [baseline EXCEPT ![w] = "same"]
    /\ UNCHANGED <<now, content, running, pollQueue, assignments, alerted,
                   fired, awaiting, alertsIn, lastCb>>
    /\ UNCHANGED <<orchVars, ttsVars, fnVars>>

\* start(), line 177-182
Start ==
    /\ ~running
    /\ running' = TRUE
    /\ UNCHANGED <<now, content, watched, panes, pollQueue, assignments, alerted,
                   fired, lastPolled, baseline, awaiting, alertsIn, lastCb>>
    /\ UNCHANGED <<orchVars, ttsVars, fnVars>>

\* _poll line 137-138 (after the sleep of line 167): list(self.panes.items())
PollPass ==
    /\ running
    /\ pollQueue = <<>>
    /\ watched # {}
    /\ pollQueue' = SelectSeq([i \in 1..Cardinality(Windows) |-> i],
                              LAMBDA v : v \in watched)
    /\ UNCHANGED <<now, content, watched, panes, running, assignments, alerted,
                   fired, lastPolled, baseline, awaiting, alertsIn, lastCb>>
    /\ UNCHANGED <<orchVars, ttsVars, fnVars>>

\* _poll line 139-141: capture_pane returned None; the window is skipped
PollSkip ==
    /\ running
    /\ pollQueue # <<>>
    /\ pollQueue' = Tail(pollQueue)
    /\ UNCHANGED <<now, content, watched, panes, running, assignments, alerted,
                   fired, lastPolled, baseline, awaiting, alertsIn, lastCb>>
    /\ UNCHANGED <<orchVars, ttsVars, fnVars>>

\* _poll line 139-165 for the next window of the pass, with _fire (line
\* 169-175), the callback _on_pane_change and _notify's test of _active
\* (main.py line 135-168)
Poll ==
    /\ running
    /\ pollQueue # <<>>
    /\ LET w == Head(pollQueue)
           output == content[w]
           res == PollPane(panes[w], output, now)
           cb == res.fire # <<>>
           old == IF cb THEN res.fire[1] ELSE "unknown"
           new == IF cb THEN res.fire[2] ELSE "unknown"
           act == OnPaneChange(w, old, new, now, alerted, assignments)
           kind == AlertKindOf(old, new)
           same == output = lastPolled[w]
           run == IF same THEN fired[w] ELSE NoneFired
           recheck == /\ Hash(output) = panes[w].hash
                      /\ panes[w].state = "working"
                      /\ now - panes[w].change > PollInterval * 2
       IN  /\ pollQueue' = Tail(pollQueue)
           /\ panes' = [panes EXCEPT ![w] = res.info]
           /\ lastPolled' = [lastPolled EXCEPT ![w] = output]
           /\ fired' = [fired EXCEPT ![w] =
                           [cbs |-> IF cb THEN Append(run.cbs, res.fire) ELSE run.cbs,
                            again |-> run.again \/ (same /\ run.cbs # <<>>),
                            stalled |-> run.stalled \/ recheck]]
           /\ baseline' = [baseline EXCEPT ![w] =
                              IF cb /\ @ = "same" THEN "fired" ELSE @]
           /\ alerted' = IF cb THEN act.keys ELSE alerted
           /\ assignments' = IF cb THEN act.asg ELSE assignments
           /\ awaiting' = [awaiting EXCEPT ![w] =
                              IF kind = "done" /\ @ = "waiting" THEN "fired"
                              ELSE IF @ = "fired" THEN "none" ELSE @]
           /\ alertsIn' =
                 IF cb /\ act.alert # "none"
                 THEN [alertsIn EXCEPT ![w][act.alert][TrueBucket(act.alert, now)] = @ + 1]
                 ELSE alertsIn
           /\ lastCb' = [kind |-> kind,
                          outcome |-> IF kind = "none" THEN "none"
                                      ELSE IF act.alert = "none" THEN "deduped"
                                      ELSE IF active THEN "muted"
                                      ELSE "spoken"]
           \* _notify line 168-171: pause(), speak(), resume() when not in a turn
           /\ paused' = IF kind # "none" /\ act.alert # "none" /\ ~active
                        THEN FALSE ELSE paused
    /\ UNCHANGED <<now, content, watched, running>>
    /\ UNCHANGED <<active, enrolled, cpc, tpc, attempt, timeouts, utter, npc>>
    /\ UNCHANGED <<turnHist, ttsVars, fnVars>>

\* TaskRouter.assign_task, line 25-52: set-buffer, paste-buffer and
\* send-keys Enter run in turn and the first to exit non-zero returns False
\* (failedStep 1, 2 or 3); with none failing (0) the assignment is recorded.
AssignTask(w, prompt, failedStep) ==
    /\ IF failedStep = 0
       THEN /\ assignments' = [assignments EXCEPT ![w] =
                                  [status |-> "active", prompt |-> prompt]]
            /\ awaiting' = [awaiting EXCEPT ![w] = "waiting"]
       ELSE UNCHANGED <<assignments, awaiting>>
    /\ UNCHANGED <<now, content, watched, panes, running, pollQueue, alerted,
                   fired, lastPolled, baseline, alertsIn, lastCb>>
    /\ UNCHANGED <<orchVars, ttsVars, fnVars>>

\* TaskRouter.cancel_task, line 69-77
CancelTask(w) ==
    /\ assignments[w].status # "none"
    /\ assignments' = [assignments EXCEPT ![w].status = "cancelled"]
    /\ awaiting' = [awaiting EXCEPT ![w] = "none"]
    /\ UNCHANGED <<now, content, watched, panes, running, pollQueue, alerted,
                   fired, lastPolled, baseline, alertsIn, lastCb>>
    /\ UNCHANGED <<orchVars, ttsVars, fnVars>>

\* A conversation turn begins (_on_wake line 132) or ends (line 233).
TurnFlag ==
    /\ active' = ~active
    /\ UNCHANGED <<paused, enrolled, cpc, tpc, attempt, timeouts, utter, npc>>
    /\ UNCHANGED <<turnHist, ttsVars, paneVars, fnVars>>

PaneNext ==
    \/ Tick
    \/ \E w \in Windows, snap \in Snapshots : PaneOutput(w, snap)
    \/ \E w \in Windows, captured \in BOOLEAN : Watch(w, captured)
    \/ Start
    \/ PollPass
    \/ PollSkip
    \/ Poll
    \/ \E w \in Windows, prompt \in Prompts, failedStep \in 0..3 :
          AssignTask(w, prompt, failedStep)
    \/ \E w \in Windows : CancelTask(w)
    \/ TurnFlag

(***************************************************************************)
(* The task-state service (src/mcp-servers/task-state/server.py): the      *)
(* tasks and instance_states tables and the operations on them.  A row is  *)
(* a record with the columns the operations read; NULL is 0 for an id and  *)
(* NoStamp for a timestamp.  Every operation is one SQL statement after    *)
(* its checks, on a connection in autocommit mode with foreign keys on, so *)
(* a statement that fails changes nothing.                                 *)
(***************************************************************************)
\* Rows the tasks table may come to hold (AUTOINCREMENT never reuses an id).
MaxTasks == 3

\* Calls made on the service in one run.
MaxStoreCalls == 4

\* The clock ticks twice a second, up to MaxStoreTicks in this specification.
TicksPerSecond == 2

MaxStoreTicks == 2

TaskIds == 1..MaxTasks

InstanceIds == {"X"}

NoStamp == -1

\* CURRENT_TIMESTAMP and datetime('now'): the time in whole seconds
Stamp(t) == t \div TicksPerSecond

\* server.py line 139-140
valid_statuses == {"pending", "in_progress", "completed", "blocked"}

valid_priorities == {"low", "medium", "high", "critical"}

\* server.py line 346
valid_instance_statuses == {"active", "idle", "busy"}

NoTask ==
    [exists |-> FALSE, status |-> "", priority |-> "", parent |-> 0,
     created_at |-> NoStamp, updated_at |-> NoStamp, completed_at |-> NoStamp]

NoInstance == [exists |-> FALSE, status |-> "", current |-> 0, last_heartbeat |-> NoStamp]

\* SELECT id FROM tasks WHERE id = ? finds a row
Exists(db, id) == id \in TaskIds /\ db.tasks[id].exists

\* What an operation gives back: the tables afterwards, whether it returned
\* or raised and why, the row returned and the rows deleted.
Done(db, row, gone) == [db |-> db, ok |-> TRUE, why |-> "", row |-> row, gone |-> gone]

Raise(db, why) == [db |-> db, ok |-> FALSE, why |-> why, row |-> NoTask, gone |-> {}]

\* create_task, line 128-173
CreateTask(db, status, priority, parent, t) ==
    IF status \notin valid_statuses THEN Raise(db, "Invalid status")
    ELSE IF priority \notin valid_priorities THEN Raise(db, "Invalid priority")
    ELSE IF parent # 0 /\ ~Exists(db, parent) THEN Raise(db, "Parent does not exist")
    ELSE LET row == [exists |-> TRUE, status |-> status, priority |-> priority,
                     parent |-> parent, created_at |-> Stamp(t),
                     updated_at |-> Stamp(t), completed_at |-> NoStamp]
         IN  Done([db EXCEPT !.tasks[db.nextId] = row, !.nextId = @ + 1], row, {})

\* The updates of an update_task call: the value for each whitelisted field
\* in play ("" or -1 when the field is not among the keys; parent 0 is
\* None), and the name of a key that is not whitelisted ("" for none).
NoUpdates == [status |-> "", priority |-> "", parent |-> -1, other |-> ""]

\* An update_task that writes the whitelisted fields it was given before it
\* raises on a field that is not whitelisted.
UpdateTaskEager(db, id, updates, t) ==
    IF ~Exists(db, id) THEN Raise(db, "not found")
    ELSE LET old == db.tasks[id]
             row == [old EXCEPT
                        !.status = IF updates.status # "" THEN updates.status ELSE @,
                        !.priority = IF updates.priority # "" THEN updates.priority ELSE @,
                        !.parent = IF updates.parent >= 0 THEN updates.parent ELSE @,
                        !.updated_at = Stamp(t),
                        !.completed_at = IF updates.status = "completed" THEN Stamp(t) ELSE @]
         IN  IF updates.other # "" THEN Raise([db EXCEPT !.tasks[id] = row], "Invalid field")
             ELSE IF updates = NoUpdates THEN Raise(db, "No valid fields to update")
             ELSE IF updates.parent > 0 /\ ~Exists(db, updates.parent)
             THEN Raise(db, "FOREIGN KEY constraint failed")
             ELSE Done([db EXCEPT !.tasks[id] = row], row, {})

\* An update_task on a connection that does not enforce the foreign key.
UpdateTaskUnchecked(db, id, updates, t) ==
    IF ~Exists(db, id) THEN Raise(db, "not found")
    ELSE IF updates.other # "" THEN Raise(db, "Invalid field")
    ELSE IF updates = NoUpdates THEN Raise(db, "No valid fields to update")
    ELSE LET old == db.tasks[id]
             row == [old EXCEPT
                        !.status = IF updates.status # "" THEN updates.status ELSE @,
                        !.priority = IF updates.priority # "" THEN updates.priority ELSE @,
                        !.parent = IF updates.parent >= 0 THEN updates.parent ELSE @,
                        !.updated_at = Stamp(t),
                        !.completed_at = IF updates.status = "completed" THEN Stamp(t) ELSE @]
         IN  Done([db EXCEPT !.tasks[id] = row], row, {})

\* update_task, line 176-225.  The loop of line 192-200 raises on the first
\* key that is not whitelisted, before the UPDATE of line 215; the UPDATE
\* fails as a whole when the new parent_task_id is no task's id.
UpdateTask(db, id, updates, t) ==
    IF ~Exists(db, id) THEN Raise(db, "not found")
    ELSE IF updates.other # "" THEN Raise(db, "Invalid field")
    ELSE IF updates = NoUpdates THEN Raise(db, "No valid fields to update")
    ELSE IF updates.parent > 0 /\ ~Exists(db, updates.parent)
    THEN Raise(db, "FOREIGN KEY constraint failed")
    ELSE LET old == db.tasks[id]
             row == [old EXCEPT
                        !.status = IF updates.status # "" THEN updates.status ELSE @,
                        !.priority = IF updates.priority # "" THEN updates.priority ELSE @,
                        !.parent = IF updates.parent >= 0 THEN updates.parent ELSE @,
                        !.updated_at = Stamp(t),
                        !.completed_at = IF updates.status = "completed" THEN Stamp(t) ELSE @]
         IN  Done([db EXCEPT !.tasks[id] = row], row, {})

\* The rows ON DELETE CASCADE (line 68) removes with the rows of S: those
\* whose parent_task_id leads to one of them.
RECURSIVE Cascade(_, _)
Cascade(rows, S) ==
    LET more == S \cup {c \in TaskIds : rows[c].exists /\ rows[c].parent \in S}
    IN  IF more = S THEN S ELSE Cascade(rows, more)

\* A delete whose cascade stops at the children of the deleted row.
DeleteTaskOneLevel(db, id) ==
    IF ~Exists(db, id) THEN Raise(db, "not found")
    ELSE LET gone == {id} \cup {c \in TaskIds : db.tasks[c].exists /\ db.tasks[c].parent = id}
         IN  Done([db EXCEPT
                      !.tasks = [i \in TaskIds |-> IF i \in gone THEN NoTask ELSE @[i]],
                      !.instances = [x \in InstanceIds |->
                                        IF @[x].current \in gone
                                        THEN [@[x] EXCEPT !.current = 0] ELSE @[x]]],
                  db.tasks[id], gone)

\* delete_task, line 228-246, with the cascade of line 68 and the SET NULL of
\* line 81
DeleteTask(db, id) ==
    IF ~Exists(db, id) THEN Raise(db, "not found")
    ELSE LET gone == Cascade(db.tasks, {id})
         IN  Done([db EXCEPT
                      !.tasks = [i \in TaskIds |-> IF i \in gone THEN NoTask ELSE @[i]],
                      !.instances = [x \in InstanceIds |->
                                        IF @[x].current \in gone
                                        THEN [@[x] EXCEPT !.current = 0] ELSE @[x]]],
                  db.tasks[id], gone)

\* get_task, line 249-268
GetTask(db, id) ==
    IF ~Exists(db, id) THEN Raise(db, "not found") ELSE Done(db, db.tasks[id], {})

\* The state of a set_instance_state call: "" or -1 when the key is absent;
\* current_task_id 0 is None.
NoState == [status |-> "", current |-> -1]

\* set_instance_state, line 332-391
SetInstanceState(db, x, state, t) ==
    IF state.status # "" /\ state.status \notin valid_instance_statuses
    THEN Raise(db, "Invalid status")
    ELSE IF state.current > 0 /\ ~Exists(db, state.current)
    THEN Raise(db, "Task does not exist")
    ELSE IF db.instances[x].exists
    THEN IF state = NoState THEN Done(db, NoTask, {})
         ELSE Done([db EXCEPT !.instances[x] =
                       [@ EXCEPT !.status = IF state.status # "" THEN state.status ELSE @,
                                 !.current = IF state.current >= 0 THEN state.current ELSE @,
                                 !.last_heartbeat = Stamp(t)]],
                   NoTask, {})
    ELSE Done([db EXCEPT !.instances[x] =
                  [exists |-> TRUE,
                   status |-> IF state.status # "" THEN state.status ELSE "active",
                   current |-> IF state.current >= 0 THEN state.current ELSE 0,
                   last_heartbeat |-> Stamp(t)]],
              NoTask, {})

\* heartbeat, line 417-441
Heartbeat(db, x, t) ==
    IF db.instances[x].exists
    THEN Done([db EXCEPT !.instances[x].last_heartbeat = Stamp(t)], NoTask, {})
    ELSE Done([db EXCEPT !.instances[x] =
                  [exists |-> TRUE, status |-> "active", current |-> 0,
                   last_heartbeat |-> Stamp(t)]],
              NoTask, {})

\* server.py line 402: datetime('now', '-5 minutes'), in seconds
ActiveWindow == 300

\* list_active_instances, line 394-414: the instance ids of the rows returned
ListActiveInstances(db, t) ==
    {x \in InstanceIds : /\ db.instances[x].exists
                         /\ db.instances[x].last_heartbeat > Stamp(t) - ActiveWindow}

\* The database as the operations see it.
Db == [tasks |-> tasks, nextId |-> nextId, instances |-> instances]

NoAnswer ==
    [n |-> 0, op |-> "none", id |-> 0, x |-> "", ok |-> TRUE, why |-> "",
     row |-> NoTask, gone |-> {}, made |-> FALSE]

NoListing == [at |-> -1, ids |-> {}, beats |-> [x \in InstanceIds |-> -1]]

StoreInit ==
    /\ tasks = [i \in TaskIds |-> NoTask]
    /\ nextId = 1
    /\ instances = [x \in InstanceIds |-> NoInstance]
    /\ stime = 0
    /\ answer = NoAnswer
    /\ listing = NoListing
    /\ beatAt = [x \in InstanceIds |-> -1]

\* handle_tool_call, line 446-492, for one tool: the tables after the call
\* and what the caller gets (the result, or the error of line 486-492).
\* stamped is the set of instances whose last_heartbeat the call wrote.
Call(op, id, x, r, stamped) ==
    /\ answer.n < MaxStoreCalls
    /\ tasks' = r.db.tasks
    /\ nextId' = r.db.nextId
    /\ instances' = r.db.instances
    /\ answer' = [n |-> answer.n + 1, op |-> op, id |-> id, x |-> x, ok |-> r.ok,
                  why |-> r.why, row |-> r.row, gone |-> r.gone,
                  made |-> \/ r.db.nextId # nextId
                           \/ \E y \in InstanceIds :
                                 r.db.instances[y].exists /\ ~instances[y].exists]
    /\ beatAt' = [y \in InstanceIds |-> IF y \in stamped THEN stime ELSE beatAt[y]]
    /\ UNCHANGED <<stime, listing>>
    /\ UNCHANGED <<orchVars, ttsVars, paneVars, detVars, cxVars, wakeVars, routeVars, monVars>>

CreateTaskCall(status, priority, parent) ==
    /\ nextId <= MaxTasks
    /\ Call("create_task", 0, "", CreateTask(Db, status, priority, parent, stime), {})

UpdateTaskCall(id, updates) ==
    /\ id \in TaskIds
    /\ Call("update_task", id, "", UpdateTask(Db, id, updates, stime), {})

DeleteTaskCall(id) ==
    /\ id \in TaskIds
    /\ Call("delete_task", id, "", DeleteTask(Db, id), {})

GetTaskCall(id) ==
    /\ id \in TaskIds
    /\ Call("get_task", id, "", GetTask(Db, id), {})

SetInstanceStateCall(x, state) ==
    /\ x \in InstanceIds
    /\ LET r == SetInstanceState(Db, x, state, stime)
       IN  Call("set_instance_state", 0, x, r,
                IF r.ok /\ (~instances[x].exists \/ state # NoState) THEN {x} ELSE {})

HeartbeatCall(x) ==
    /\ x \in InstanceIds
    /\ Call("heartbeat", 0, x, Heartbeat(Db, x, stime), {x})

ListActiveInstancesCall ==
    /\ answer.n < MaxStoreCalls
    /\ answer' = [NoAnswer EXCEPT !.n = answer.n + 1, !.op = "list_active_instances"]
    /\ listing' = [at |-> stime, ids |-> ListActiveInstances(Db, stime), beats |-> beatAt]
    /\ UNCHANGED <<tasks, nextId, instances, stime, beatAt>>
    /\ UNCHANGED <<orchVars, ttsVars, paneVars, detVars, cxVars, wakeVars, routeVars, monVars>>

\* time passes, to the instant t
ClockTick(t) ==
    /\ t > stime
    /\ stime' = t
    /\ UNCHANGED <<tasks, nextId, instances, answer, listing, beatAt>>
    /\ UNCHANGED <<orchVars, ttsVars, paneVars, detVars, cxVars, wakeVars, routeVars, monVars>>

(***************************************************************************)
(* The orchestrator's specification                                        *)
(***************************************************************************)
OrchInit ==
    /\ active = FALSE
    /\ paused = FALSE
    /\ enrolled \in BOOLEAN
    /\ cpc = [c \in Callers |-> "loop"]
    /\ tpc = [w \in Workers |-> "none"]
    /\ attempt = [w \in Workers |-> 0]
    /\ timeouts = [w \in Workers |-> 0]
    /\ utter = [w \in Workers |-> "none"]
    /\ npc = "idle"
    /\ history = <<>>
    /\ thought = [w \in Workers |-> NoThought]
    /\ steps = [w \in Workers |-> <<>>]
    /\ resumes = [w \in Workers |-> 0]

\* The orchestrator with no profile enrolled, for the other specifications.
OrchIdle == OrchInit /\ enrolled = FALSE

\* The single-operation groups at rest, for the specifications that do not
\* move them.
DetectIdle == shot = <<>> /\ verdicts = <<>>

ClassifyIdle == said = <<>> /\ mode = "pending"

WakeIdle ==
    /\ wclock = CooldownMs
    /\ lastActivation = 0
    /\ inSegment = FALSE
    /\ quiet = CooldownMs
    /\ segFires = 0
    /\ separated = TRUE

NotRouted == [action |-> "pending", response |-> ""]

RouteIdle == heard = <<>> /\ routed = NotRouted /\ tmuxLog = <<>>

\* The monitor thread in its poll loop, no transition in hand.
NoCall == [w |-> 0, old |-> "unknown", new |-> "unknown", i |-> 0]

MonIdle == mpc = "poll" /\ call = NoCall /\ cbLog = <<>>

SvcIdle == RouteIdle /\ StoreInit /\ MonIdle

FnIdle == DetectIdle /\ ClassifyIdle /\ WakeIdle /\ SvcIdle

Init == OrchInit /\ TTSInit /\ PaneIdle /\ FnIdle

Next ==
    \/ WdDetect
    \/ HkTrigger
    \/ \E c \in Callers : OnWakeCheck(c)
    \/ \E c \in Callers : OnWakeBusy(c)
    \/ \E c \in Callers : OnWakeSpawn(c)
    \/ \E w \in Workers : TurnPause(w)
    \/ \E w \in Workers : ListenTimeout(w)
    \/ \E w \in Workers : ListenAudio(w)
    \/ \E w \in Workers : Verify(w)
    \/ \E w \in Workers : Transcribe(w)
    \/ \E w \in Workers : TurnLoop(w)
    \/ \E w \in Workers : Route(w)
    \/ \E w \in Workers : Think(w)
    \/ \E w \in Workers : SpeakDone(w)
    \/ \E w \in Workers : TurnRaise(w)
    \/ \E w \in Workers : TurnExcept(w)
    \/ \E w \in Workers : FinActive(w)
    \/ \E w \in Workers : FinReset(w)
    \/ \E w \in Workers : FinResume(w)
    \/ NotifyCall
    \/ NotifyPause
    \/ NotifySpeakDone
    \/ NotifyResume

Spec == Init /\ [][Next]_vars

\* Conversation turns started from the hotkey alone: the wake word is never
\* spoken and no pane raises an alert.  A worker reads neither _active nor
\* the detector's flag, so what it does in a turn is the same with or without
\* the other threads.
NextTurn ==
    \/ HkTrigger
    \/ OnWakeCheck("hk")
    \/ OnWakeBusy("hk")
    \/ OnWakeSpawn("hk")
    \/ \E w \in Workers : TurnPause(w)
    \/ \E w \in Workers : ListenTimeout(w)
    \/ \E w \in Workers : ListenAudio(w)
    \/ \E w \in Workers : Verify(w)
    \/ \E w \in Workers : Transcribe(w)
    \/ \E w \in Workers : TurnLoop(w)
    \/ \E w \in Workers : Route(w)
    \/ \E w \in Workers : Think(w)
    \/ \E w \in Workers : SpeakDone(w)
    \/ \E w \in Workers : TurnRaise(w)
    \/ \E w \in Workers : TurnExcept(w)
    \/ \E w \in Workers : FinActive(w)
    \/ \E w \in Workers : FinReset(w)
    \/ \E w \in Workers : FinResume(w)

SpecTurn == Init /\ [][NextTurn]_vars

(***************************************************************************)
(* The Brain client alone: think() and reset() called in any order.        *)
(***************************************************************************)
\* brain.py line 73
MAX_HISTORY == 10

\* Entries the history may hold before the specification stops calling think().
MaxThinks == 11

\* What the user asks the brain.
Questions == {"ask", "ask more"}

\* Brain.think(user_text), line 82-224, in conversation conv.
BrainThink(conv, text, outcome) ==
    /\ Len(history) < MaxThinks
    /\ history' = Remember(history, conv, text, outcome)
    /\ UNCHANGED <<active, paused, enrolled, cpc, tpc, attempt, timeouts, utter, npc>>
    /\ UNCHANGED <<thought, steps, resumes, ttsVars, paneVars, fnVars>>

\* Brain.reset(), line 226-228
BrainReset ==
    /\ history' = <<>>
    /\ UNCHANGED <<active, paused, enrolled, cpc, tpc, attempt, timeouts, utter, npc>>
    /\ UNCHANGED <<thought, steps, resumes, ttsVars, paneVars, fnVars>>

InitBrain == OrchIdle /\ TTSInit /\ PaneIdle /\ FnIdle

BrainNext ==
    \/ \E text \in Questions, outcome \in ThinkOutcomes : BrainThink(1, text, outcome)
    \/ BrainReset

SpecBrain == InitBrain /\ [][BrainNext]_vars

\* The TTS engine alone, with the threads that use it.
InitTTS == OrchIdle /\ TTSInit /\ PaneIdle /\ FnIdle

SpecTTS == InitTTS /\ [][TTSNext]_vars

\* The TTS engine with stop() called only while nothing is playing: no
\* speak() is in progress and no player is alive when stop() is called, and
\* a speak() is called once a stop() has returned.
AtRest == (\A s \in Speakers : spc[s] = "idle") /\ (\A p \in Players : player[p] # "running")

\* speak() is called with no stop() in progress.
SpeakBeginAfterStop(s) ==
    /\ stpc = "idle"
    /\ SpeakBegin(s)

\* stop() is called with nothing playing.
StopBeginAtRest ==
    /\ AtRest
    /\ StopBegin

InitQuiet == OrchIdle /\ TTSInit /\ PaneIdle /\ FnIdle

QuietNext ==
    \/ \E s \in Speakers : SpeakBeginAfterStop(s)
    \/ \E s \in Speakers : SpeakFlag(s)
    \/ \E s \in Speakers : SpeakStream(s)
    \/ \E s \in Speakers : SpeakCheck(s)
    \/ \E s \in Speakers : SpeakLaunch(s)
    \/ \E s \in Speakers : SpeakWait(s)
    \/ \E s \in Speakers : SpeakWaitDone(s)
    \/ \E s \in Speakers : SpeakReturn(s)
    \/ \E p \in Players : PlayerExit(p)
    \/ StopBeginAtRest
    \/ StopKill
    \/ StopReturn

SpecQuiet == InitQuiet /\ [][QuietNext]_vars

(***************************************************************************)
(* detect_state applied to snapshots: some lines, a run of ordinary output  *)
(* and some more lines.                                                    *)
(***************************************************************************)
\* Lines before the run of ordinary output, and after it.
MaxHeadLines == 2

MaxTailLines == 1

\* Calls of detect_state on one snapshot.
MaxCalls == 2

\* Lengths of the run: none, and around the 15 lines detect_state looks at.
Fills == {0, RecentLines - 2, RecentLines - 1, RecentLines}

SeqsUpTo(S, n) == UNION {[1..k -> S] : k \in 0..n}

Fill(k) == [i \in 1..k |-> "compiling"]

DetectInputs ==
    {a \o Fill(k) \o b : a \in SeqsUpTo(Lines, MaxHeadLines), k \in Fills,
                         b \in SeqsUpTo(Lines, MaxTailLines)}

InitDetect ==
    /\ OrchIdle /\ TTSInit /\ PaneIdle /\ ClassifyIdle /\ WakeIdle /\ SvcIdle
    /\ shot \in DetectInputs
    /\ verdicts = <<>>

\* detect_state(output) is called on the snapshot.
DetectCall ==
    /\ Len(verdicts) < MaxCalls
    /\ verdicts' = Append(verdicts, DetectState(shot))
    /\ UNCHANGED <<shot, orchVars, ttsVars, paneVars, cxVars, wakeVars, svcVars>>

DetectNext == DetectCall

SpecDetect == InitDetect /\ [][DetectNext]_vars

(***************************************************************************)
(* _classify_complexity applied to utterances: a run of plain words with    *)
(* at most one other word somewhere in it.                                 *)
(***************************************************************************)
\* Words in an utterance.
MaxWords == 13

\* main.py line 189: len(words) <= 12
QuickWords == 12

\* main.py line 179-181
ACTION_KEYWORDS ==
    {"click", "type", "open", "mouse", "screen", "browser", "window",
     "scroll", "fill", "form", "cursor", "move", "press", "close",
     "focus", "switch", "tab", "desktop", "display", "launch", "run"}

\* A keyword, a keyword with a capital, a word that only starts like one.
OddWords == {"open", "Open", "opener"}

\* str.lower() on the words in play
Lower(word) ==
    CASE word = "Open" -> "open"
      [] word = "Tell" -> "tell"
      [] word = "Fix" -> "fix"
      [] word = "README" -> "readme"
      [] OTHER -> word

Plain(n) == [i \in 1..n |-> "please"]

ClassifyInputs ==
    {Plain(n) : n \in 0..MaxWords}
        \cup UNION {{[Plain(n) EXCEPT ![i] = odd] : i \in 1..n, odd \in OddWords} :
                        n \in 1..MaxWords}

\* A classifier whose quick answers stop one word early.
ClassifyComplexityBelow(words) ==
    IF \E i \in DOMAIN words : Lower(words[i]) \in ACTION_KEYWORDS THEN "full"
    ELSE IF Len(words) < QuickWords THEN "quick"
    ELSE "full"

\* _classify_complexity, main.py line 183-191, on text.lower().split()
ClassifyComplexity(words) ==
    IF \E i \in DOMAIN words : Lower(words[i]) \in ACTION_KEYWORDS THEN "full"
    ELSE IF Len(words) <= QuickWords THEN "quick"
    ELSE "full"

InitClassify ==
    /\ OrchIdle /\ TTSInit /\ PaneIdle /\ DetectIdle /\ WakeIdle /\ SvcIdle
    /\ said \in ClassifyInputs
    /\ mode = "pending"

\* _conversation_turn line 222: complexity = self._classify_complexity(user_text)
ClassifyCall ==
    /\ mode = "pending"
    /\ mode' = ClassifyComplexity(said)
    /\ UNCHANGED <<said, orchVars, ttsVars, paneVars, detVars, wakeVars, svcVars>>

ClassifyNext == ClassifyCall

SpecClassify == InitClassify /\ [][ClassifyNext]_vars

(***************************************************************************)
(* The wake detector's loop on a stream of frames, not paused.  Time is in *)
(* milliseconds and each read of a chunk takes the chunk's 80 ms.          *)
(***************************************************************************)
\* Frames in a stream.
MaxFrames == 27

\* model.predict's score for a frame, in hundredths.
Scores == {10, 35, 90}

\* A frame loop that calls on_wake on every frame at or above the threshold.
FrameWithoutCooldown(score) ==
    /\ ~paused
    /\ wclock < CooldownMs + MaxFrames * FrameMs
    /\ LET t == wclock + FrameMs
           hot == score >= Threshold
           begins == hot /\ ~inSegment
       IN  /\ wclock' = t
           /\ lastActivation' = IF hot THEN t ELSE lastActivation
           /\ inSegment' = hot
           /\ quiet' = IF hot THEN 0 ELSE Min(quiet + FrameMs, CooldownMs)
           /\ segFires' = Min((IF begins THEN 0 ELSE segFires) + (IF hot THEN 1 ELSE 0), 2)
           /\ separated' = (separated /\ (begins => quiet >= CooldownMs))
    /\ UNCHANGED <<orchVars, ttsVars, paneVars, detVars, cxVars, svcVars>>

\* _listen_loop line 95-114, one pass with the detector not paused: a chunk
\* is read and scored; at or above the threshold and a cooldown after the
\* last activation, the activation is stamped and on_wake is called.
Frame(score) ==
    /\ ~paused
    /\ wclock < CooldownMs + MaxFrames * FrameMs
    /\ LET t == wclock + FrameMs
           hot == score >= Threshold
           fire == hot /\ t - lastActivation >= CooldownMs
           begins == hot /\ ~inSegment
       IN  /\ wclock' = t
           /\ lastActivation' = IF fire THEN t ELSE lastActivation
           /\ inSegment' = hot
           /\ quiet' = IF hot THEN 0 ELSE Min(quiet + FrameMs, CooldownMs)
           /\ segFires' = Min((IF begins THEN 0 ELSE segFires) + (IF fire THEN 1 ELSE 0), 2)
           /\ separated' = (separated /\ (begins => quiet >= CooldownMs))
    /\ UNCHANGED <<orchVars, ttsVars, paneVars, detVars, cxVars, svcVars>>

InitWake == OrchIdle /\ TTSInit /\ PaneIdle /\ FnIdle

WakeNext == \E score \in Scores : Frame(score)

SpecWake == InitWake /\ [][WakeNext]_vars

(***************************************************************************)
(* FastRouter.try_route applied to utterances, with the TaskRouter calls   *)
(* it makes.  The text is its sequence of words: every pattern is anchored *)
(* at the start and separates its parts by \s+, so it matches word by      *)
(* word.  The exit codes of the tmux commands are the environment's.       *)
(***************************************************************************)
\* The verbs of the patterns of line 33 and 48, and the names of line 48.
Verbs == {"tell", "send", "ask", "have", "get"}

AgentNames == {"claude", "gemini", "codex", "opencode"}

\* The windows a user names: one of the session and one that does not exist.
Numbers == {"1", "9"}

\* int(m.group(1))
WindowOf(word) == IF word = "1" THEN 1 ELSE 9

\* text.lower().strip(), line 29
LowerText(text) == [i \in DOMAIN text |-> Lower(text[i])]

\* sep.join(words)
RECURSIVE JoinWith(_, _)
JoinWith(sep, words) ==
    IF words = <<>> THEN ""
    ELSE IF Len(words) = 1 THEN words[1]
    ELSE words[1] \o sep \o JoinWith(sep, Tail(words))

\* seq[i:]
From(seq, i) == SubSeq(seq, i, Len(seq))

\* An optional group (?:word\s+)? at position i: the position after it.
Skip(text, i, words) == IF i <= Len(text) /\ text[i] \in words THEN i + 1 ELSE i

\* (?:to\s+)?(.*) at position i: "to" is skipped only when text follows it.
SkipTo(text, i) == IF i < Len(text) /\ text[i] = "to" THEN i + 1 ELSE i

\* (\d+) at position i
NumberAt(text, i) == i <= Len(text) /\ text[i] \in Numbers

\* One tmux command as it ran: its name, its -t target (0 without one), its
\* argument and its exit code.
Cmd(name, window, arg, rc) == [cmd |-> name, window |-> window, arg |-> arg, rc |-> rc]

\* What capture-pane prints: nothing, or some lines with a blank one.
Screens == { <<>>, <<"compiling", "", "$">> }

\* What tmux does with the commands of one call: the step of assign_task
\* that fails (0 for none), whether a command run on its own exits 0, the
\* window list-windows shows under the name asked for (0 for none), and
\* what capture-pane prints.
TmuxOutcomes == [failedStep : 0..3, ok : BOOLEAN, named : {0, 1}, screen : Screens]

\* A command aimed at a window that does not exist exits non-zero.
FailedStepFor(window, env) ==
    IF window \in Windows THEN env.failedStep
    ELSE IF env.failedStep = 1 THEN 1 ELSE 2

OkFor(window, env) == window \in Windows /\ env.ok

\* An assign_task that records the assignment before it sends anything.
RouterAssignRecordFirst(asg, window, prompt, failedStep) ==
    LET all == << Cmd("set-buffer", 0, prompt, 0),
                  Cmd("paste-buffer", window, "", 0),
                  Cmd("send-keys", window, "Enter", 0) >>
        n == IF failedStep = 0 THEN 3 ELSE failedStep
    IN  [cmds |-> [i \in 1..n |-> [all[i] EXCEPT !.rc = IF i = failedStep THEN 1 ELSE 0]],
         ok |-> failedStep = 0,
         asg |-> [asg EXCEPT ![window] = [status |-> "active", prompt |-> prompt]]]

\* TaskRouter.assign_task, line 25-52, as a function: the commands run, the
\* value returned and the registry afterwards.
RouterAssign(asg, window, prompt, failedStep) ==
    LET all == << Cmd("set-buffer", 0, prompt, 0),
                  Cmd("paste-buffer", window, "", 0),
                  Cmd("send-keys", window, "Enter", 0) >>
        n == IF failedStep = 0 THEN 3 ELSE failedStep
    IN  [cmds |-> [i \in 1..n |-> [all[i] EXCEPT !.rc = IF i = failedStep THEN 1 ELSE 0]],
         ok |-> failedStep = 0,
         asg |-> IF failedStep = 0
                 THEN [asg EXCEPT ![window] = [status |-> "active", prompt |-> prompt]]
                 ELSE asg]

\* TaskRouter.cancel_task, line 69-77
RouterCancel(asg, window, ok) ==
    [cmds |-> << Cmd("send-keys", window, "C-c", IF ok THEN 0 ELSE 1) >>,
     ok |-> ok,
     asg |-> IF window \in Windows THEN MarkStatus(asg, window, "cancelled") ELSE asg]

\* TaskRouter.switch_window, line 107-113
RouterSwitch(window, ok) ==
    [cmds |-> << Cmd("select-window", window, "", IF ok THEN 0 ELSE 1) >>, ok |-> ok]

Routed(action, response) == [action |-> action, response |-> response]

\* try_route returned None
NoRoute == Routed("none", "")

Window(n) == "window " \o ToString(n)

\* try_route line 70-79: the summary of the last three lines that are not
\* blank (the lines in play stay under its 200 characters).
StatusSummary(screen) ==
    JoinWith(" ", LastN(SelectSeq(StripLines(screen), LAMBDA l : ~IsBlank(l)), 3))

\* FastRouter.try_route, line 27-104: what it returns, the tmux commands it
\* ran and the registry afterwards.
TryRoute(said0, asg, env) ==
    LET text == LowerText(said0)
        verb == text # <<>> /\ text[1] \in Verbs
        \* line 32-35
        iw == Skip(text, 2, {"window"})
        m1 == verb /\ NumberAt(text, iw) /\ iw < Len(text)
        \* line 47-50
        m2 == verb /\ Len(text) >= 3 /\ text[2] \in AgentNames
        \* line 66-69
        ic == Skip(text, Skip(text, 2, {"on", "of"}), {"window"})
        m3 == text # <<>> /\ text[1] \in {"check", "status"} /\ NumberAt(text, ic)
        \* line 82
        is == Skip(text, Skip(text, 2, {"to"}), {"window"})
        m4 == text # <<>> /\ text[1] \in {"switch", "go"} /\ NumberAt(text, is)
        \* line 89
        ik == Skip(text, 2, {"window"})
        m5 == text # <<>> /\ text[1] \in {"cancel", "stop", "kill"} /\ NumberAt(text, ik)
        \* line 96
        il == Skip(text, 2, {"all"})
        m6 == /\ text # <<>> /\ text[1] \in {"list", "show"}
              /\ il <= Len(text) /\ text[il] = "windows"
    IN  IF m1
        THEN LET window == WindowOf(text[iw])
                 prompt == JoinWith(" ", From(text, SkipTo(text, iw + 1)))
                 r == RouterAssign(asg, window, prompt, FailedStepFor(window, env))
             IN  [result |-> IF r.ok THEN Routed("assign", "Sent to " \o Window(window) \o ".")
                             ELSE Routed("error", "Couldn't reach " \o Window(window) \o "."),
                  cmds |-> r.cmds, asg |-> r.asg]
        ELSE IF m2
        THEN LET name == text[2]
                 prompt == JoinWith(" ", From(text, SkipTo(text, 3)))
                 find == << Cmd("list-windows", 0, "", 0) >>
                 window == env.named
                 r == RouterAssign(asg, window, prompt, FailedStepFor(window, env))
             IN  IF window = 0
                 THEN [result |-> Routed("error", "I can't find a window named " \o name \o "."),
                       cmds |-> find, asg |-> asg]
                 ELSE [result |-> IF r.ok
                                  THEN Routed("assign", "Sent to " \o name \o " in "
                                                         \o Window(window) \o ".")
                                  ELSE Routed("error", "Couldn't reach " \o name \o "'s window."),
                       cmds |-> find \o r.cmds, asg |-> r.asg]
        ELSE IF m3
        THEN LET window == WindowOf(text[ic])
                 got == OkFor(window, env)
             IN  [result |-> IF got /\ env.screen # <<>>
                             THEN Routed("status", "Window " \o ToString(window) \o ": "
                                                    \o StatusSummary(env.screen))
                             ELSE Routed("error", "Couldn't read " \o Window(window) \o "."),
                  cmds |-> << Cmd("capture-pane", window, "", IF got THEN 0 ELSE 1) >>,
                  asg |-> asg]
        ELSE IF m4
        THEN LET window == WindowOf(text[is])
                 r == RouterSwitch(window, OkFor(window, env))
             IN  [result |-> Routed("switch", "Switched to " \o Window(window) \o "."),
                  cmds |-> r.cmds, asg |-> asg]
        ELSE IF m5
        THEN LET window == WindowOf(text[ik])
                 r == RouterCancel(asg, window, OkFor(window, env))
             IN  [result |-> Routed("cancel", "Cancelled " \o Window(window) \o "."),
                  cmds |-> r.cmds, asg |-> r.asg]
        ELSE IF m6
        THEN [result |-> IF env.ok
                         THEN Routed("list", "You have 1 windows: window 1 claude.")
                         ELSE Routed("list", "No tmux windows found."),
              cmds |-> << Cmd("list-windows", 0, "", IF env.ok THEN 0 ELSE 1) >>,
              asg |-> asg]
        ELSE [result |-> NoRoute, cmds |-> <<>>, asg |-> asg]

\* What the user asks a window to do.
Rests == { <<"fix", "tests">>, <<"Fix", "README">> }

\* The utterances: the assignments in their variants, and one or two of
\* every other kind.
RouteInputs ==
    { <<"tell">> \o win \o <<n>> \o to \o rest :
          win \in {<<>>, <<"window">>}, n \in Numbers,
          to \in {<<>>, <<"to">>}, rest \in Rests }
    \cup { <<"Tell", "window", "1", "to", "fix", "tests">>,
           <<"tell", "window", "1">>, <<"tell", "claude", "to", "fix", "tests">>,
           <<"check", "on", "window", "1">>, <<"status">>, <<"list", "windows">>,
           <<"show", "all", "windows">>, <<"what", "time">> }
    \cup { <<"switch", "to", "window", n>> : n \in Numbers }
    \cup { <<"cancel", "window", n>> : n \in Numbers }

\* _conversation_turn line 216: fast_result = self.fast_router.try_route(user_text)
TryRouteCall(text, env) ==
    LET r == TryRoute(text, assignments, env)
    IN  /\ heard' = text
        /\ routed' = r.result
        /\ tmuxLog' = r.cmds
        /\ assignments' = r.asg
    /\ UNCHANGED <<now, content, watched, panes, running, pollQueue, alerted,
                   fired, lastPolled, baseline, awaiting, alertsIn, lastCb>>
    /\ UNCHANGED <<orchVars, ttsVars, detVars, cxVars, wakeVars, storeVars, monVars>>

InitRoute == OrchIdle /\ TTSInit /\ PaneIdle /\ FnIdle

RouteNext == \E text \in RouteInputs, env \in TmuxOutcomes : TryRouteCall(text, env)

SpecRoute == InitRoute /\ [][RouteNext]_vars

(***************************************************************************)
(* The task-state service under its callers                                 *)
(***************************************************************************)
\* The values the callers pass: valid ones and one that is not.
StatusInputs == {"pending", "completed", "bogus"}

CreatePriorities == {"medium", "urgent"}

UpdateInputs ==
    {[NoUpdates EXCEPT !.status = s] : s \in StatusInputs}
        \cup {[NoUpdates EXCEPT !.priority = "urgent"]}
        \cup {[NoUpdates EXCEPT !.parent = q] : q \in 0..MaxTasks}
        \cup {NoUpdates, [NoUpdates EXCEPT !.other = "id"],
              [NoUpdates EXCEPT !.priority = "high", !.other = "id"]}

TaskStates == {[NoState EXCEPT !.current = c] : c \in 0..MaxTasks}

InitStore == OrchIdle /\ TTSInit /\ PaneIdle /\ FnIdle

StoreNext ==
    \/ \E status \in StatusInputs, priority \in CreatePriorities, parent \in 0..MaxTasks :
          CreateTaskCall(status, priority, parent)
    \/ \E id \in TaskIds, updates \in UpdateInputs : UpdateTaskCall(id, updates)
    \/ \E id \in TaskIds : DeleteTaskCall(id)
    \/ \E id \in TaskIds : GetTaskCall(id)
    \/ \E x \in InstanceIds, state \in TaskStates : SetInstanceStateCall(x, state)
    \/ \E t \in 1..MaxStoreTicks : ClockTick(t)

SpecStore == InitStore /\ [][StoreNext]_vars

\* The instants at which the instance operations are called: around the
\* start, and around five and ten minutes later.
ActiveTicks == ActiveWindow * TicksPerSecond

BeatInstants ==
    {1, 2, ActiveTicks - 1, ActiveTicks, ActiveTicks + 1, ActiveTicks + 2,
     2 * ActiveTicks, 2 * ActiveTicks + 1}

BeatStates == {NoState, [NoState EXCEPT !.status = "busy"], [NoState EXCEPT !.status = "bogus"]}

InitBeat == OrchIdle /\ TTSInit /\ PaneIdle /\ FnIdle

BeatNext ==
    \/ \E x \in InstanceIds : HeartbeatCall(x)
    \/ \E x \in InstanceIds, state \in BeatStates : SetInstanceStateCall(x, state)
    \/ ListActiveInstancesCall
    \/ \E t \in BeatInstants : ClockTick(t)

SpecBeat == InitBeat /\ [][BeatNext]_vars

(***************************************************************************)
(* The monitor thread at the grain of its statements: _poll's pass over    *)
(* list(self.panes.items()), _fire's loop over the registered callbacks,   *)
(* and the orchestrator's callback with _notify's pause / speak / resume   *)
(* running on that thread, while other threads print into the panes, call  *)
(* unwatch and begin or end a conversation turn.                           *)
(***************************************************************************)
\* The tmux windows watched in this specification.
Panes == {1, 2}

\* The pane contents the programs in them produce here.
PaneShots == { <<"compiling">>, <<"compiling", "$">>, <<"Error: boom", "compiling">> }

\* PaneMonitor._callbacks, in registration order: a listener registered with
\* on_state_change, which may raise, then Orchestrator._on_pane_change
\* (main.py line 97).
Callbacks == <<"listener", "_on_pane_change">>

\* _fire with an exception that leaves the loop over the callbacks and the
\* thread with it.
AfterCallbackPropagating(c, raised) ==
    IF raised THEN [mpc |-> "dead", call |-> c]
    ELSE IF c.i < Len(Callbacks) THEN [mpc |-> "fire", call |-> [c EXCEPT !.i = @ + 1]]
    ELSE [mpc |-> "poll", call |-> c]

\* _fire line 171-175 after callback c.i returned or raised: the exception
\* is printed and the loop goes to the next callback; after the last one
\* _fire returns into _poll.
AfterCallback(c, raised) ==
    IF c.i < Len(Callbacks) THEN [mpc |-> "fire", call |-> [c EXCEPT !.i = @ + 1]]
    ELSE [mpc |-> "poll", call |-> c]

\* What the log keeps of one invocation.
Invoked(c, raised) == [w |-> c.w, cb |-> Callbacks[c.i], raised |-> raised]

\* _poll line 137-138: list(self.panes.items()), the windows watched now
MonPass ==
    /\ running
    /\ mpc = "poll"
    /\ pollQueue = <<>>
    /\ watched # {}
    /\ pollQueue' = SelectSeq([i \in 1..Cardinality(Panes) |-> i],
                              LAMBDA v : v \in watched)
    /\ UNCHANGED <<now, content, watched, panes, running, assignments, alerted,
                   fired, lastPolled, baseline, awaiting, alertsIn, lastCb>>
    /\ UNCHANGED <<orchVars, ttsVars, detVars, cxVars, wakeVars, routeVars, storeVars,
                   monVars>>

\* _poll line 139-141: capture_pane returned None; the window is skipped
MonSkip ==
    /\ running
    /\ mpc = "poll"
    /\ pollQueue # <<>>
    /\ pollQueue' = Tail(pollQueue)
    /\ UNCHANGED <<now, content, watched, panes, running, assignments, alerted,
                   fired, lastPolled, baseline, awaiting, alertsIn, lastCb>>
    /\ UNCHANGED <<orchVars, ttsVars, detVars, cxVars, wakeVars, routeVars, storeVars,
                   monVars>>

\* _poll line 139-165 for the next (window, info) pair of the pass, whether
\* the window is still in self.panes or not, up to the call of _fire
MonPoll ==
    /\ running
    /\ mpc = "poll"
    /\ pollQueue # <<>>
    /\ LET w == Head(pollQueue)
           res == PollPane(panes[w], content[w], now)
       IN  /\ pollQueue' = Tail(pollQueue)
           /\ panes' = [panes EXCEPT ![w] = res.info]
           /\ IF res.fire # <<>>
              THEN /\ mpc' = "fire"
                   /\ call' = [w |-> w, old |-> res.fire[1], new |-> res.fire[2], i |-> 1]
                   /\ cbLog' = <<>>
              ELSE UNCHANGED monVars
    /\ UNCHANGED <<now, content, watched, running, assignments, alerted,
                   fired, lastPolled, baseline, awaiting, alertsIn, lastCb>>
    /\ UNCHANGED <<orchVars, ttsVars, detVars, cxVars, wakeVars, routeVars, storeVars>>

\* _fire line 171-175 with the listener as cb: it returns or raises
MonListener(raised) ==
    /\ mpc = "fire"
    /\ Callbacks[call.i] = "listener"
    /\ cbLog' = Append(cbLog, Invoked(call, raised))
    /\ mpc' = AfterCallback(call, raised).mpc
    /\ call' = AfterCallback(call, raised).call
    /\ UNCHANGED <<orchVars, ttsVars, paneVars>>
    /\ UNCHANGED <<detVars, cxVars, wakeVars, routeVars, storeVars>>

\* _fire line 173 with _on_pane_change as cb (main.py line 135-168): the
\* dedup, the assignment's mark and _notify's test of _active; with no
\* alert to speak the callback returns at once.
MonOnPaneChange ==
    /\ mpc = "fire"
    /\ Callbacks[call.i] = "_on_pane_change"
    /\ LET act == OnPaneChange(call.w, call.old, call.new, now, alerted, assignments)
       IN  /\ alerted' = act.keys
           /\ assignments' = act.asg
           /\ IF act.alert # "none" /\ ~active
              THEN /\ mpc' = "in_notify"
                   /\ npc' = "n_pause"
                   /\ UNCHANGED <<call, cbLog>>
              ELSE /\ cbLog' = Append(cbLog, Invoked(call, FALSE))
                   /\ mpc' = AfterCallback(call, FALSE).mpc
                   /\ call' = AfterCallback(call, FALSE).call
                   /\ UNCHANGED npc
    /\ UNCHANGED <<now, content, watched, panes, running, pollQueue,
                   fired, lastPolled, baseline, awaiting, alertsIn, lastCb>>
    /\ UNCHANGED <<active, paused, enrolled, cpc, tpc, attempt, timeouts, utter>>
    /\ UNCHANGED <<turnHist, ttsVars, detVars, cxVars, wakeVars, routeVars, storeVars>>

\* main.py line 171 done: _notify and _on_pane_change return into _fire
MonReturn ==
    /\ mpc = "in_notify"
    /\ npc = "idle"
    /\ cbLog' = Append(cbLog, Invoked(call, FALSE))
    /\ mpc' = AfterCallback(call, FALSE).mpc
    /\ call' = AfterCallback(call, FALSE).call
    /\ UNCHANGED <<orchVars, ttsVars, paneVars>>
    /\ UNCHANGED <<detVars, cxVars, wakeVars, routeVars, storeVars>>

\* the program in a window prints: the pane shows something else
MonOutput(w, snap) ==
    /\ content[w] # snap
    /\ content' = [content EXCEPT ![w] = snap]
    /\ UNCHANGED <<now, watched, panes, running, pollQueue, assignments, alerted,
                   fired, lastPolled, baseline, awaiting, alertsIn, lastCb>>
    /\ UNCHANGED <<orchVars, ttsVars, fnVars>>

\* unwatch(window), line 119-121, on another thread: self.panes.pop(window).
\* The PaneInfo a pass already listed stays with that pass.
Unwatch(w) ==
    /\ w \in watched
    /\ watched' = watched \ {w}
    /\ UNCHANGED <<now, content, panes, running, pollQueue, assignments, alerted,
                   fired, lastPolled, baseline, awaiting, alertsIn, lastCb>>
    /\ UNCHANGED <<orchVars, ttsVars, fnVars>>

\* After run() watched every window with its baseline and started the
\* monitor (main.py line 304-312).
InitMonitor ==
    /\ OrchIdle /\ TTSInit /\ DetectIdle /\ ClassifyIdle /\ WakeIdle /\ SvcIdle
    /\ now = 0
    /\ content \in [Panes -> PaneShots]
    /\ watched = Panes
    /\ panes = [w \in Panes |-> WatchInfo(TRUE, content[w], 0)]
    /\ running = TRUE
    /\ pollQueue = <<>>
    /\ assignments = [w \in Panes |-> NoAssignment]
    /\ alerted = {}
    /\ fired = [w \in Windows |-> NoneFired]
    /\ lastPolled = [w \in Windows |-> <<"?">>]
    /\ baseline = [w \in Windows |-> "unwatched"]
    /\ awaiting = [w \in Windows |-> "none"]
    /\ alertsIn = [w \in Windows |-> [k \in AlertKinds |-> [b \in Buckets |-> 0]]]
    /\ lastCb = NoCallback

MonitorNext ==
    \/ MonPass
    \/ MonSkip
    \/ MonPoll
    \/ \E raised \in BOOLEAN : MonListener(raised)
    \/ MonOnPaneChange
    \/ NotifyPause
    \/ NotifySpeakDone
    \/ NotifyResume
    \/ MonReturn
    \/ \E w \in Panes, snap \in PaneShots : MonOutput(w, snap)
    \/ \E w \in Panes : Unwatch(w)
    \/ TurnFlag

SpecMonitor == InitMonitor /\ [][MonitorNext]_vars

\* The pane monitor, the alert path and the task router.
InitPane == OrchIdle /\ TTSInit /\ PaneInit /\ FnIdle

SpecPane == InitPane /\ [][PaneNext]_vars

(***************************************************************************)
(* Claims about the orchestrator's threads                                 *)
(***************************************************************************)

\* A worker is inside its conversation turn: pause() has been called and the
\* finally block has not yet been entered (LISTENING, THINKING or SPEAKING).
InTurn(w) ==
    tpc[w] \in {"listen", "verify", "transcribe", "loop", "route", "think",
                "speak_reply", "speak_bye"}

\* A thread of control is a live turn worker from Thread.start() to its end.
LiveWorkers == {w \in Workers : tpc[w] # "none"}

\* C1: whenever a conversation turn is active (from the start of LISTENING
\* to the end of SPEAKING) the wake detector's paused flag is true.
C1_PausedDuringTurn == \A w \in Workers : InTurn(w) => paused

\* C2: at most one conversation-turn worker exists at any time.
C2_OneTurnWorker == Cardinality(LiveWorkers) <= 1

\* C3: when the speech listener has timed out twice in a row the turn ends:
\* the worker never goes on to listen again with two timeouts behind it.
C3_TwoTimeoutsEndTurn ==
    \A w \in Workers : timeouts[w] >= 2 => tpc[w] \notin {"listen", "verify", "transcribe"}

\* C8: no pane alert is being spoken by TTS while a conversation turn is
\* active.
C8_NoAlertDuringTurn ==
    ~(npc = "n_speaking" /\ (active \/ \E w \in Workers : InTurn(w)))

(***************************************************************************)
(* Claims about the TTS engine                                             *)
(***************************************************************************)
Running == {p \in Players : player[p] = "running"}

\* C6: at most one TTS utterance is playing at any time: two player
\* processes started by speak() are never alive together.
C6_OnePlayerAlive == Cardinality(Running) <= 1

\* C7: once stop() has returned, no player belonging to a speak() that began
\* before the stop is running (or has been started since).
C7_StopCancelsSpeech == \A p \in Running : owner[p] \notin stopped

(***************************************************************************)
(* Claims about the pane monitor, the alerts and the assignments           *)
(***************************************************************************)

\* C4: a state-change callback fires at most once per distinct (old, new)
\* transition while the polls of a window return the same snapshot: no
\* callback is fired twice for one snapshot.
C4_NoRefire ==
    \A w \in Windows :
        \A i, j \in 1..Len(fired[w].cbs) :
            i # j => fired[w].cbs[i] # fired[w].cbs[j]

\* A callback fired for a snapshot and the same snapshot was polled again.
C4_Repolled == \E w \in Windows : fired[w].cbs # <<>> /\ fired[w].again

\* C5: baseline suppression: while the pane content is what it was when
\* watch was called, no poll fires a callback for the window.
C5_BaselineSilent == \A w \in Windows : baseline[w] # "fired"

\* C9: after a successful assign, the window's next WORKING->IDLE callback
\* leaves the assignment completed.
C9_NextIdleCompletes ==
    \A w \in Windows : awaiting[w] = "fired" => assignments[w].status = "completed"

\* C10: for each window at most one completion alert is raised per bucket
\* floor(now / 30 s) and at most one error alert per bucket floor(now / 60 s).
C10_OneAlertPerBucket ==
    \A w \in Windows : \A k \in AlertKinds : \A b \in Buckets : alertsIn[w][k][b] <= 1

\* A WORKING->IDLE callback arrived in a bucket that already had its alert
\* and raised none.
C10_SecondCallbackDeduped ==
    /\ lastCb = [kind |-> "done", outcome |-> "deduped"]
    /\ \E w \in Windows : alertsIn[w]["done"][now \div DedupDone] = 1

(***************************************************************************)
(* Claims about detect_state                                               *)
(***************************************************************************)
\* The last non-empty line of a snapshot is an idle prompt.
EndsWithIdlePrompt(out) ==
    LET kept == SelectSeq(out, LAMBDA l : ~IsBlank(l))
    IN  kept # <<>> /\ MatchesIdle(kept[Len(kept)])

\* One of the last 15 lines of the snapshot begins with an error marker
\* (a line the Exception pattern accepts counts as one).
RecentLineBeginsWithMarker(out) ==
    LET recent == LastN(StripLines(out), RecentLines)
    IN  \E i \in DOMAIN recent :
            BeginsWithErrorMarker(recent[i]) \/ HasExceptionMarker(recent[i])

\* C11: detect_state returns ERRORED exactly when the last non-empty line is
\* not an idle prompt and one of the last 15 lines, whichever it is, begins
\* with an error marker.
C11_ErroredIffMarkerInRecent ==
    \A i \in DOMAIN verdicts :
        verdicts[i] = "errored"
            <=> (~EndsWithIdlePrompt(shot) /\ RecentLineBeginsWithMarker(shot))

\* C12: detect_state is a function of the snapshot (every call on it returns
\* the same state) and returns IDLE whenever the last non-empty line is an
\* idle prompt, whatever the earlier lines begin with.
C12_IdleTakesPrecedence ==
    /\ \A i, j \in DOMAIN verdicts : verdicts[i] = verdicts[j]
    /\ \A i \in DOMAIN verdicts : EndsWithIdlePrompt(shot) => verdicts[i] = "idle"

\* A snapshot that begins with an error marker and ends with the prompt was
\* classified twice.
C12_ErrorThenPromptIsIdle ==
    /\ Len(verdicts) = MaxCalls
    /\ shot = <<"Error: boom", "compiling", "$">>
    /\ verdicts[1] = "idle"

(***************************************************************************)
(* Claims about the steps of a conversation turn                           *)
(***************************************************************************)
StepRank(step) ==
    CASE step = "verify" -> 1
      [] step = "transcribe" -> 2
      [] step = "route" -> 3
      [] step = "speak" -> 4
      [] OTHER -> 5

\* The verifier rejected the clip the worker captured last.
Rejected(w) == \E i \in DOMAIN steps[w] : steps[w][i] = "reject"

\* C13: with a profile enrolled the steps taken with a captured clip start
\* with verify and come in the order verify, transcribe, route, speak; a
\* rejected clip is verified and nothing else: not transcribed, not spoken to.
C13_RejectedClipGoesNowhere ==
    enrolled =>
        \A w \in Workers :
            /\ steps[w] # <<>> => steps[w][1] = "verify"
            /\ Rejected(w) => steps[w] = <<"verify", "reject">>
            /\ \A i, j \in DOMAIN steps[w] :
                   i < j => StepRank(steps[w][i]) < StepRank(steps[w][j])

\* A clip was rejected and the worker went on with no transcription and no
\* speech.
C13_RejectedAndBackInLoop ==
    enrolled /\ \E w \in Workers : Rejected(w) /\ tpc[w] = "loop"

\* C14: after a clip is rejected the turn ends: the worker does not go back
\* to listening for more speech.
C14_RejectionEndsTurn ==
    \A w \in Workers : Rejected(w) => tpc[w] # "listen"

\* C15: a turn's worker calls wake_detector.resume() exactly once, as it
\* ends, on every way out, and never while the turn is still going.
C15_ResumeOnceAtTurnEnd ==
    [][\A w \in Workers :
          /\ tpc'[w] # "none" => resumes'[w] = 0
          /\ (tpc[w] # "none" /\ tpc'[w] = "none") => (resumes[w] = 0 /\ resumes'[w] = 1)]_vars

\* A turn has ended and its worker called resume() once.
C15_TurnEndedResumed ==
    \E w \in Workers : tpc[w] = "none" /\ resumes[w] = 1 /\ ~paused

\* C16: once every turn has ended the Brain's history is empty, and the
\* history a conversation's think() sees holds entries of that conversation
\* only.
C16_HistoryStaysInConversation ==
    /\ (~active /\ LiveWorkers = {}) => history = <<>>
    /\ \A w \in Workers :
           tpc[w] = "think" => \A i \in DOMAIN history : history[i].conv = w

\* C17: the Brain's history never holds more than MAX_HISTORY entries.
C17_HistoryBounded == Len(history) <= MAX_HISTORY

\* C19: when the Brain subprocess times out, think() returns the canned
\* reply, which is spoken, and the worker listens again: no exception ends
\* the turn.
C19_TimeoutReplyThenListen ==
    [][\A w \in Workers :
          thought[w].outcome = "timeout" =>
              /\ thought[w].response = TooLong
              /\ tpc[w] = "speak_reply"
              /\ tpc'[w] \in {"speak_reply", "listen"}]_vars

\* A worker is speaking the reply of a think() that timed out.
C19_SpeakingTimeoutReply ==
    \E w \in Workers : thought[w].outcome = "timeout" /\ tpc[w] = "speak_reply"

(***************************************************************************)
(* Claims about the wake detector and the complexity classifier            *)
(***************************************************************************)
\* C18: in a stream whose wake segments are separated by at least the
\* cooldown, the detector has called on_wake exactly once for the segment it
\* is in, however long the segment is.
C18_OneWakePerSegment ==
    (separated /\ inSegment) => segFires = 1

\* C20: _classify_complexity returns "full" when some word is an action
\* keyword, otherwise "quick" up to 12 words and "full" from 13 words on.
C20_QuickUpToTwelveWords ==
    mode # "pending" =>
        mode = IF \E i \in DOMAIN said : Lower(said[i]) \in ACTION_KEYWORDS THEN "full"
               ELSE IF Len(said) >= 13 THEN "full"
               ELSE "quick"

\* Twelve words with no action keyword among them were classified "quick".
C20_TwelvePlainWordsQuick ==
    /\ Len(said) = 12
    /\ \A i \in DOMAIN said : said[i] \notin ACTION_KEYWORDS \cup {"Open"}
    /\ mode = "quick"

(***************************************************************************)
(* Claims about the fast router and the task router                        *)
(***************************************************************************)
\* Every tmux command of the call exited 0.
AllExitedZero == \A i \in DOMAIN tmuxLog : tmuxLog[i].rc = 0

\* C21: after "tell window N to REST" with window N reachable, the router
\* has matched and replied exactly "Sent to window N.", REST was pasted into
\* window N and Enter sent after it, and the registry holds an active
\* assignment for window N whose prompt is REST.
C21_TellWindowSendsRest ==
    \A n \in Numbers, rest \in Rests :
        (heard = <<"tell", "window", n, "to">> \o rest /\ AllExitedZero) =>
            /\ routed = Routed("assign", "Sent to window " \o n \o ".")
            /\ tmuxLog = << Cmd("set-buffer", 0, JoinWith(" ", rest), 0),
                            Cmd("paste-buffer", WindowOf(n), "", 0),
                            Cmd("send-keys", WindowOf(n), "Enter", 0) >>
            /\ assignments[WindowOf(n)] =
                   [status |-> "active", prompt |-> JoinWith(" ", rest)]

\* C22: when a tmux command behind an assign, switch or cancel exited
\* non-zero, the reply is an error reply and no confirmation.
C22_FailedCommandErrorReply ==
    (/\ heard # <<>>
     /\ Lower(heard[1]) \in Verbs \cup {"switch", "go", "cancel", "stop", "kill"}
     /\ \E i \in DOMAIN tmuxLog : tmuxLog[i].rc # 0)
        => routed.action = "error"

(***************************************************************************)
(* Claims about the task-state service                                     *)
(***************************************************************************)
\* Row c has row p among its ancestors, following parent_task_id upwards at
\* most k times.
RECURSIVE DescendsWithin(_, _, _, _)
DescendsWithin(rows, c, p, k) ==
    /\ k > 0
    /\ rows[c].exists
    /\ rows[c].parent # 0
    /\ (rows[c].parent = p \/ DescendsWithin(rows, rows[c].parent, p, k - 1))

Descends(rows, c, p) == DescendsWithin(rows, c, p, MaxTasks)

\* The step is a tool call (the calls are numbered).
Called == answer'.n # answer.n

\* C23: a delete_task(parent) that succeeds also deletes every task that had
\* parent among its ancestors, and get_task on any of them then fails as
\* not found.
C23_DeleteCascades ==
    [][(Called /\ answer'.op = "delete_task" /\ answer'.ok) =>
          \A c \in TaskIds :
              Descends(tasks, c, answer'.id) =>
                  /\ ~tasks'[c].exists
                  /\ ~GetTask(Db', c).ok
                  /\ GetTask(Db', c).why = "not found"]_vars

\* C23 witness: a delete has removed a task, its child and its grandchild.
C23_GrandchildDeleted ==
    answer.op = "delete_task" /\ answer.ok /\ Cardinality(answer.gone) = 3

\* C24: every task's parent_task_id is null or the id of a task that exists.
C24_ParentExists ==
    \A i \in TaskIds :
        tasks[i].exists =>
            tasks[i].parent = 0 \/ (tasks[i].parent \in TaskIds /\ tasks[tasks[i].parent].exists)

\* C24 witness: a task has a parent, and an update_task that named a parent
\* that does not exist has just been refused.
C24_UnknownParentRefused ==
    /\ answer.op = "update_task" /\ ~answer.ok
    /\ answer.why = "FOREIGN KEY constraint failed"
    /\ \E i \in TaskIds : tasks[i].exists /\ tasks[i].parent # 0

\* C25: every task's status is one of pending, in_progress, completed,
\* blocked and its priority one of low, medium, high, critical.
C25_EnumsValid ==
    \A i \in TaskIds :
        tasks[i].exists =>
            tasks[i].status \in valid_statuses /\ tasks[i].priority \in valid_priorities

\* C26: every task whose status is completed has a completed_at, and it is
\* not earlier than the time the task was created.
C26_CompletedHasStamp ==
    \A i \in TaskIds :
        (tasks[i].exists /\ tasks[i].status = "completed") =>
            tasks[i].completed_at # NoStamp /\ tasks[i].completed_at >= tasks[i].created_at

\* C27: a call that reports an error leaves the task table, its id sequence
\* and the instance table exactly as they were.
C27_FailedCallWritesNothing ==
    [][(Called /\ ~answer'.ok) =>
          (tasks' = tasks /\ nextId' = nextId /\ instances' = instances)]_vars

\* C27 witness: an update_task on an existing task has been refused for a
\* field that is not whitelisted.
C27_InvalidFieldRefused ==
    /\ answer.op = "update_task" /\ ~answer.ok /\ answer.why = "Invalid field"
    /\ tasks[answer.id].exists

\* C28: a heartbeat leaves the instance there, stamped, and active when the
\* call created it; list_active_instances lists an instance stamped less
\* than five minutes before the call and none stamped more than five minutes
\* before it.
C28_ActiveWithinFiveMinutes ==
    /\ answer.op = "heartbeat" =>
          /\ instances[answer.x].exists
          /\ instances[answer.x].last_heartbeat = Stamp(beatAt[answer.x])
          /\ (answer.made => instances[answer.x].status = "active")
    /\ \A x \in InstanceIds :
          (listing.at >= 0 /\ listing.beats[x] >= 0) =>
              /\ (listing.at - listing.beats[x] < ActiveTicks => x \in listing.ids)
              /\ (listing.at - listing.beats[x] > ActiveTicks => x \notin listing.ids)

(***************************************************************************)
(* Claims about stop() while nothing is playing                            *)
(***************************************************************************)
\* C29: with stop() called only while nothing is playing, however often, no
\* step of stop() ends a player or changes _process, the speakers or
\* _speaking, and every later speak() finds _cancel clear when it comes to
\* play.
C29_StopAtRestIsNoOp ==
    [][/\ stpc' # stpc =>
              /\ player' = player /\ process' = process /\ spc' = spc
              /\ speaking' = speaking /\ owner' = owner
       /\ \A s \in Speakers : spc'[s] = "s_check" => ~cancel']_vars

\* C29 witness: a stop() called after a playback has ended is past its
\* locked block, with _process naming the player that had exited.
C29_StopFoundPlayerExited ==
    stpc = "t_flag" /\ cancel /\ process # 0 /\ player[process] = "exited"


\* The workers inside _transcribe: the utterance is captured and whisper's
\* result has not been returned yet.
Transcribing == {w \in Workers : tpc[w] = "transcribe"}

\* C30: at most one transcription is in flight: no two turn workers are
\* inside _transcribe at the same time, whatever the interleaving of the
\* wake detector's and the hotkey's wake events.
C30_OneTranscription == Cardinality(Transcribing) <= 1

(***************************************************************************)
(* Claims about the monitor thread and its callbacks                       *)
(***************************************************************************)
\* C31: the pane-transition callback does not block the monitor thread: it
\* returns without waiting for the alert's playback, so while an alert is
\* being spoken the thread is back in its poll loop and not inside the
\* callback with windows of the pass still to poll.
C31_CallbackDoesNotBlock ==
    npc = "n_speaking" => mpc = "poll"

\* C32: in a turn the fast router is tried first for every utterance that is
\* not an end phrase; the brain (its intent classification, quick answer and
\* subprocess) is entered only from a router call that found no match, only
\* a brain call sets the brain's response, and a router match goes to the
\* speech of its reply with no brain call.
C32_RouterBeforeBrain ==
    [][\A w \in Workers :
          /\ (tpc[w] = "loop" /\ utter[w] \in {"cmd", "ask"} /\ tpc'[w] # "loop")
                 => tpc'[w] = "route"
          /\ (tpc'[w] = "think" /\ tpc[w] # "think")
                 => (tpc[w] = "route" /\ utter[w] = "ask")
          /\ (thought'[w] # thought[w] /\ thought'[w] # NoThought)
                 => tpc[w] = "think"
          /\ (tpc[w] = "route" /\ utter[w] = "cmd" /\ tpc'[w] # "route")
                 => (tpc'[w] \in {"speak_reply", "except"} /\ thought'[w] = NoThought)]_vars

\* C32 witness: the router found no match and the brain is being asked.
C32_BrainAfterNoMatch ==
    \E w \in Workers :
        /\ tpc[w] = "think"
        /\ steps[w] # <<>> /\ steps[w][Len(steps[w])] = "route"

\* C33: the wake detector calls on_wake only on a frame that scores at or
\* above the threshold and comes at least the cooldown after the last
\* activation, and it records that frame's time as the last activation: two
\* consecutive calls of on_wake are at least one cooldown apart.
C33_FiresAfterCooldown ==
    [][lastActivation' # lastActivation =>
          /\ inSegment'
          /\ lastActivation' = wclock'
          /\ wclock' - lastActivation >= CooldownMs]_vars

\* C33 witness: after an activation, a frame at or above the threshold came
\* within the cooldown and on_wake was not called for it.
C33_HotFrameInCooldown ==
    /\ inSegment
    /\ lastActivation > 0
    /\ lastActivation < wclock
    /\ wclock - lastActivation < CooldownMs

\* C35: an exception raised by a registered callback is swallowed by the
\* monitor: the thread stays in _fire or _poll, the callbacks registered
\* after the one that raised are invoked for the same transition (when
\* _fire has returned, every registered callback was invoked once, in
\* order), and the pane's record holds the new state of the transition.
C35_CallbackErrorSwallowed ==
    /\ mpc \in {"poll", "fire", "in_notify"}
    /\ (mpc = "poll" /\ call # NoCall) =>
           /\ Len(cbLog) = Len(Callbacks)
           /\ \A i \in DOMAIN cbLog : cbLog[i].cb = Callbacks[i] /\ cbLog[i].w = call.w
    /\ call # NoCall => panes[call.w].state = call.new

\* C35 witness: the listener raised, _on_pane_change was invoked after it
\* and the thread is back in the poll loop.
C35_RaisedThenNextInvoked ==
    /\ mpc = "poll"
    /\ Len(cbLog) = 2
    /\ cbLog[1].cb = "listener" /\ cbLog[1].raised
    /\ cbLog[2].cb = "_on_pane_change"

C38_NoCallbackAfterUnwatch ==
    mpc \in {"fire", "in_notify"} => call.w \in watched

(***************************************************************************)
(* Claims about the task router's registry                                 *)
(***************************************************************************)
\* The commands of assign_task.
SendSteps == {"set-buffer", "paste-buffer", "send-keys"}

\* The call that has just returned ran assign_task and one of its steps
\* exited non-zero.
SendFailed ==
    /\ heard # <<>> /\ Lower(heard[1]) \in Verbs
    /\ \E i \in DOMAIN tmuxLog : tmuxLog[i].cmd \in SendSteps /\ tmuxLog[i].rc # 0

\* C34: assign_task records an assignment only on a fully successful send.
\* When set-buffer, paste-buffer or send-keys Enter exits non-zero it
\* returns false (the router's reply is the error reply) and the registry is
\* as it was, an earlier assignment of the window included; an assignment
\* that appears was sent by three commands that all exited zero.
C34_FailedSendRecordsNothing ==
    [][/\ SendFailed' => (assignments' = assignments /\ routed'.action = "error")
       /\ \A w \in DOMAIN assignments :
             (assignments'[w] # assignments[w] /\ assignments'[w].status = "active") =>
                 LET n == Len(tmuxLog')
                 IN  /\ n >= 3
                     /\ tmuxLog'[n - 2] = Cmd("set-buffer", 0, assignments'[w].prompt, 0)
                     /\ tmuxLog'[n - 1] = Cmd("paste-buffer", w, "", 0)
                     /\ tmuxLog'[n] = Cmd("send-keys", w, "Enter", 0)]_vars

\* C34 witness: window 1 holds an earlier assignment and a later send to it
\* failed at its last step.
C34_EarlierAssignmentKept ==
    /\ SendFailed
    /\ Len(tmuxLog) = 3
    /\ heard = <<"tell", "window", "1", "to", "Fix", "README">>
    /\ assignments[1] = [status |-> "active", prompt |-> "fix tests"]

\* C39: a cancelled assignment stays cancelled: no pane transition sets its
\* status to completed or errored, and only a new assign_task for the window
\* replaces it with an active one.
C39_CancelledIsFinal ==
    [][\A w \in Windows :
          assignments[w].status = "cancelled"
              => assignments'[w].status \in {"cancelled", "active"}]_vars

(***************************************************************************)
(* Claims about the end of a conversation turn                             *)
(***************************************************************************)
\* The worker is inside the turn's try block.
InTry(w) == tpc[w] \in {"start", "listen", "verify", "transcribe", "loop", "route",
                        "think", "speak_reply", "speak_bye"}

C40_HierarchyAcyclic ==
    \A c \in TaskIds : tasks[c].exists => ~Descends(tasks, c, c)

====
